---- MODULE Spec2Model ----
(***************************************************************************)
(* MECOBE dashboard: the spreadsheet ingestion pipeline of                 *)
(* src/excel-loader.js (ExcelLoader) and the filter engine of              *)
(* src/dashboard.js (medicalData, filtersModule).                          *)
(*                                                                         *)
(* Representation of JavaScript values:                                    *)
(*   - a string is a sequence of one-character strings, so that trim,      *)
(*     toLowerCase, includes and parseFloat are computed, not assumed;     *)
(*   - a number is an integer count of thousandths (85 is 85000, 59.5 is   *)
(*     59500); NaN and undefined are tagged values;                        *)
(*   - the stored volume/affinity of a Doctor, being the result of         *)
(*     Math.round, is a plain integer.                                     *)
(***************************************************************************)
EXTENDS Integers, Naturals, Sequences, FiniteSets, TLC

(***************************************************************************)
(* Strings                                                                 *)
(***************************************************************************)
WhiteSpace == {" "}

UpperToLower ==
  [A |-> "a", B |-> "b", C |-> "c", D |-> "d", E |-> "e", F |-> "f", G |-> "g",
   H |-> "h", I |-> "i", J |-> "j", K |-> "k", L |-> "l", M |-> "m", N |-> "n",
   O |-> "o", P |-> "p", Q |-> "q", R |-> "r", S |-> "s", T |-> "t", U |-> "u",
   V |-> "v", W |-> "w", X |-> "x", Y |-> "y", Z |-> "z"]

\* String.prototype.toLowerCase
toLowerCase(s) ==
  [i \in 1..Len(s) |-> IF s[i] \in DOMAIN UpperToLower THEN UpperToLower[s[i]] ELSE s[i]]

RECURSIVE trimStart(_)
trimStart(s) ==
  IF s # <<>> /\ Head(s) \in WhiteSpace THEN trimStart(Tail(s)) ELSE s

RECURSIVE trimEnd(_)
trimEnd(s) ==
  IF s # <<>> /\ s[Len(s)] \in WhiteSpace THEN trimEnd(SubSeq(s, 1, Len(s) - 1)) ELSE s

\* String.prototype.trim
trim(s) == trimEnd(trimStart(s))

\* String.prototype.includes
includes(s, sub) ==
  \E i \in 0..(Len(s) - Len(sub)) : SubSeq(s, i + 1, i + Len(sub)) = sub

\* String.prototype.replace(pattern, replacement) with a one-character string
\* pattern: only the FIRST occurrence is replaced.
RECURSIVE replaceFirst(_, _, _)
replaceFirst(s, c, r) ==
  IF s = <<>> THEN <<>>
  ELSE IF Head(s) = c THEN <<r>> \o Tail(s)
  ELSE <<Head(s)>> \o replaceFirst(Tail(s), c, r)

(***************************************************************************)
(* Numbers and JavaScript values                                           *)
(***************************************************************************)
JSNum(n) == [t |-> "num", n |-> n]     \* n in thousandths
JSStr(s) == [t |-> "str", s |-> s]
NaN == [t |-> "nan"]
Undefined == [t |-> "undef"]

\* an integer as a number value
Int2Num(i) == JSNum(i * 1000)

DigitChars == <<"0", "1", "2", "3", "4", "5", "6", "7", "8", "9">>
IsDigit(c) == \E d \in 1..10 : DigitChars[d] = c
DigitValue(c) == (CHOOSE d \in 1..10 : DigitChars[d] = c) - 1

\* number of leading decimal digits of s
RECURSIVE CountDigits(_)
CountDigits(s) ==
  IF s # <<>> /\ IsDigit(Head(s)) THEN 1 + CountDigits(Tail(s)) ELSE 0

\* value of a sequence of digits
RECURSIVE DigitsValue(_)
DigitsValue(ds) ==
  IF ds = <<>> THEN 0
  ELSE 10 * DigitsValue(SubSeq(ds, 1, Len(ds) - 1)) + DigitValue(ds[Len(ds)])

\* thousandths denoted by the digits after the decimal point (digits beyond
\* the third are below the resolution of the number representation)
FractionValue(ds) ==
  LET d(i) == IF i <= Len(ds) THEN DigitValue(ds[i]) ELSE 0
  IN  100 * d(1) + 10 * d(2) + d(3)

\* the longest prefix of s made of decimal digits
leadingDigits(s) == SubSeq(s, 1, CountDigits(s))

\* the digits that follow a decimal point at the head of s, if there is one
fractionDigits(s) ==
  IF s # <<>> /\ Head(s) = "." THEN leadingDigits(Tail(s)) ELSE <<>>

\* the number  ip.fp  denotes; NaN when there is no digit at all
decimalValue(ip, fp) ==
  IF Len(ip) + Len(fp) = 0 THEN NaN
  ELSE JSNum(1000 * DigitsValue(ip) + FractionValue(fp))

\* digits [. digits] at the head of s, ni being the number of leading digits
parseDecimal(s, ni) ==
  decimalValue(SubSeq(s, 1, ni), fractionDigits(SubSeq(s, ni + 1, Len(s))))

hasSign(s) == s # <<>> /\ Head(s) \in {"-", "+"}
stripSign(s) == IF hasSign(s) THEN Tail(s) ELSE s
unsignedPart(s) == parseDecimal(stripSign(s), CountDigits(stripSign(s)))
withSign(s, v) ==
  IF v.t = "num" /\ s # <<>> /\ Head(s) = "-" THEN JSNum(0 - v.n) ELSE v

\* [+-] digits [. digits] at the head of s
parseSigned(s) == withSign(s, unsignedPart(s))

\* parseFloat applied to a string: leading white space is skipped, then the
\* longest prefix  [+-] digits [. digits]  is converted; NaN when that prefix
\* holds no digit.
parseFloatString(str) == parseSigned(trimStart(str))

\* parseFloat(v): a number converts to itself (through its decimal text)
parseFloat(v) ==
  IF v.t = "str" THEN parseFloatString(v.s)
  ELSE IF v.t = "num" THEN v
  ELSE NaN

\* JavaScript truthiness of a value
Truthy(v) ==
  IF v.t = "str" THEN v.s # <<>>
  ELSE IF v.t = "num" THEN v.n # 0
  ELSE FALSE

\* a || b
Or(a, b) == IF Truthy(a) THEN a ELSE b

\* Math.round of a number value: the nearest integer, halves rounded up
MathRound(v) == (v.n + 500) \div 1000

(***************************************************************************)
(* utils of ExcelLoader                                                    *)
(***************************************************************************)
\* utils.normalizeString
normalizeString(v) ==
  IF ~Truthy(v) THEN <<>>
  ELSE toLowerCase(trim(v.s))

\* the keyword table of utils.parseSpecialty, in declaration order
specialtyMap ==
  <<[key |-> <<"c", "a", "r", "d", "i", "o", "l", "o", "g", "i", "a">>, value |-> "cardiologia"],
    [key |-> <<"c", "a", "r", "d", "i", "o">>, value |-> "cardiologia"],
    [key |-> <<"n", "e", "u", "r", "o", "l", "o", "g", "i", "a">>, value |-> "neurologia"],
    [key |-> <<"n", "e", "u", "r", "o">>, value |-> "neurologia"],
    [key |-> <<"o", "r", "t", "o", "p", "e", "d", "i", "a">>, value |-> "ortopedia"],
    [key |-> <<"o", "r", "t", "o">>, value |-> "ortopedia"],
    [key |-> <<"g", "i", "n", "e", "c", "o", "l", "o", "g", "i", "a">>, value |-> "ginecologia"],
    [key |-> <<"g", "i", "n", "e", "c", "o">>, value |-> "ginecologia"],
    [key |-> <<"u", "r", "o", "l", "o", "g", "i", "a">>, value |-> "urologia"],
    [key |-> <<"u", "r", "o">>, value |-> "urologia"],
    [key |-> <<"d", "e", "r", "m", "a", "t", "o", "l", "o", "g", "i", "a">>, value |-> "dermatologia"],
    [key |-> <<"d", "e", "r", "m", "a">>, value |-> "dermatologia"],
    [key |-> <<"g", "a", "s", "t", "r", "o", "e", "n", "t", "e", "r", "o", "l", "o", "g", "i", "a">>, value |-> "gastroenterologia"],
    [key |-> <<"g", "a", "s", "t", "r", "o">>, value |-> "gastroenterologia"],
    [key |-> <<"e", "n", "d", "o", "c", "r", "i", "n", "o", "l", "o", "g", "i", "a">>, value |-> "endocrinologia"],
    [key |-> <<"e", "n", "d", "o", "c", "r", "i", "n", "o">>, value |-> "endocrinologia"],
    [key |-> <<"p", "n", "e", "u", "m", "o", "l", "o", "g", "i", "a">>, value |-> "pneumologia"],
    [key |-> <<"p", "n", "e", "u", "m", "o">>, value |-> "pneumologia"],
    [key |-> <<"r", "e", "u", "m", "a", "t", "o", "l", "o", "g", "i", "a">>, value |-> "reumatologia"],
    [key |-> <<"r", "e", "u", "m", "a">>, value |-> "reumatologia"],
    [key |-> <<"o", "n", "c", "o", "l", "o", "g", "i", "a">>, value |-> "oncologia"],
    [key |-> <<"o", "n", "c", "o">>, value |-> "oncologia"],
    [key |-> <<"p", "e", "d", "i", "a", "t", "r", "i", "a">>, value |-> "pediatria"],
    [key |-> <<"p", "e", "d", "i", "a", "t", "r", "a">>, value |-> "pediatria"],
    [key |-> <<"p", "s", "i", "q", "u", "i", "a", "t", "r", "i", "a">>, value |-> "psiquiatria"],
    [key |-> <<"p", "s", "i", "q", "u", "i", "a", "t", "r", "a">>, value |-> "psiquiatria"],
    [key |-> <<"o", "f", "t", "a", "l", "m", "o", "l", "o", "g", "i", "a">>, value |-> "oftalmologia"],
    [key |-> <<"o", "f", "t", "a", "l", "m", "o">>, value |-> "oftalmologia"],
    [key |-> <<"n", "e", "f", "r", "o", "l", "o", "g", "i", "a">>, value |-> "nefrologia"],
    [key |-> <<"n", "e", "f", "r", "o">>, value |-> "nefrologia"],
    [key |-> <<"i", "n", "f", "e", "c", "t", "o", "l", "o", "g", "i", "a">>, value |-> "infectologia"],
    [key |-> <<"i", "n", "f", "e", "c", "t", "o", "l", "o", "g", "i", "s", "t", "a">>, value |-> "infectologia"],
    [key |-> <<"h", "e", "m", "a", "t", "o", "l", "o", "g", "i", "a">>, value |-> "hematologia"],
    [key |-> <<"h", "e", "m", "a", "t", "o">>, value |-> "hematologia"],
    [key |-> <<"g", "e", "r", "i", "a", "t", "r", "i", "a">>, value |-> "geriatria"],
    [key |-> <<"g", "e", "r", "i", "a", "t", "r", "a">>, value |-> "geriatria"],
    [key |-> <<"a", "n", "e", "s", "t", "e", "s", "i", "o", "l", "o", "g", "i", "a">>, value |-> "anestesiologia"],
    [key |-> <<"a", "n", "e", "s", "t", "e", "s", "i", "s", "t", "a">>, value |-> "anestesiologia"],
    [key |-> <<"r", "a", "d", "i", "o", "l", "o", "g", "i", "a">>, value |-> "radiologia"],
    [key |-> <<"r", "a", "d", "i", "o", "l", "o", "g", "o">>, value |-> "radiologia"],
    [key |-> <<"p", "a", "t", "o", "l", "o", "g", "i", "a">>, value |-> "patologia"],
    [key |-> <<"p", "a", "t", "o", "l", "o", "g", "o">>, value |-> "patologia"],
    [key |-> <<"c", "i", "r", "u", "r", "g", "i", "a">>, value |-> "cirurgia-geral"],
    [key |-> <<"c", "i", "r", "u", "r", "g", "i", "a", "o">>, value |-> "cirurgia-geral"],
    [key |-> <<"m", "e", "d", "i", "c", "i", "n", "a", " ", "i", "n", "t", "e", "r", "n", "a">>, value |-> "medicina-interna"],
    [key |-> <<"c", "l", "i", "n", "i", "c", "a">>, value |-> "medicina-interna"],
    [key |-> <<"c", "l", "i", "n", "i", "c", "o">>, value |-> "medicina-interna"]>>

\* utils.parseSpecialty: the value of the first table entry whose key is a
\* substring of the normalized text
RECURSIVE firstSpecialtyMatch(_, _)
firstSpecialtyMatch(normalized, i) ==
  IF i > Len(specialtyMap) THEN "outras"
  ELSE IF includes(normalized, specialtyMap[i].key) THEN specialtyMap[i].value
  ELSE firstSpecialtyMatch(normalized, i + 1)

\* parseSpecialty matching the raw text, neither trimmed nor lowercased
parseSpecialty_rawText(text) ==
  IF ~Truthy(text) THEN "outras"
  ELSE firstSpecialtyMatch(text.s, 1)

parseSpecialty(text) ==
  IF ~Truthy(text) THEN "outras"
  ELSE firstSpecialtyMatch(normalizeString(text), 1)

\* thresholds of the classifier
SegmentThreshold == 60
HighThreshold == 80
LowThreshold == 40

\* parseFloat(x) || 0, in thousandths
NumberOrZero(v) == Or(parseFloat(v), JSNum(0)).n

\* segmentOf with 60 as an exclusive bound
segmentOf_exclusive(vol, aff) ==
  IF vol > SegmentThreshold * 1000 /\ aff > SegmentThreshold * 1000 THEN "blindar"
  ELSE IF vol <= SegmentThreshold * 1000 /\ aff > SegmentThreshold * 1000 THEN "incentivar"
  ELSE IF vol > SegmentThreshold * 1000 /\ aff <= SegmentThreshold * 1000 THEN "avaliar"
  ELSE "conquistar"

\* the comparisons of parseSegment, vol and aff in thousandths
segmentOf(vol, aff) ==
  IF vol >= SegmentThreshold * 1000 /\ aff >= SegmentThreshold * 1000 THEN "blindar"
  ELSE IF vol < SegmentThreshold * 1000 /\ aff >= SegmentThreshold * 1000 THEN "incentivar"
  ELSE IF vol >= SegmentThreshold * 1000 /\ aff < SegmentThreshold * 1000 THEN "avaliar"
  ELSE "conquistar"

\* utils.parseSegment
parseSegment(volume, affinity) ==
  segmentOf(NumberOrZero(volume), NumberOrZero(affinity))

\* priorityOf with the blindar rule after the high rule
priorityOf_highFirst(vol, aff, segment) ==
  IF vol > HighThreshold * 1000 \/ aff > HighThreshold * 1000 THEN "high"
  ELSE IF segment = "blindar" THEN "strategic"
  ELSE IF vol < LowThreshold * 1000 /\ aff < LowThreshold * 1000 THEN "new-opportunities"
  ELSE "strategic"

\* the comparisons of parsePriority, vol and aff in thousandths
priorityOf(vol, aff, segment) ==
  IF segment = "blindar" THEN "strategic"
  ELSE IF vol > HighThreshold * 1000 \/ aff > HighThreshold * 1000 THEN "high"
  ELSE IF vol < LowThreshold * 1000 /\ aff < LowThreshold * 1000 THEN "new-opportunities"
  ELSE "strategic"

\* utils.parsePriority
parsePriority(volume, affinity, segment) ==
  priorityOf(NumberOrZero(volume), NumberOrZero(affinity), segment)

(***************************************************************************)
(* dataProcessor                                                           *)
(***************************************************************************)
\* the null of an unresolved columnMap entry (column indices are 0-based)
NoColumn == -1

nameKeywords ==
  {<<"n", "o", "m", "e">>,
   <<"m", "e", "d", "i", "c", "o">>,
   <<"d", "o", "u", "t", "o", "r">>,
   <<"p", "r", "o", "f", "i", "s", "s", "i", "o", "n", "a", "l">>}
specialtyKeywords ==
  {<<"e", "s", "p", "e", "c", "i", "a", "l", "i", "d", "a", "d", "e">>,
   <<"a", "r", "e", "a">>,
   <<"e", "s", "p", "e", "c", "i", "a", "l", "i", "z", "a", "ç", "ã", "o">>}
volumeKeywords ==
  {<<"v", "o", "l", "u", "m", "e">>,
   <<"c", "o", "n", "s", "u", "l", "t", "a", "s">>,
   <<"a", "t", "e", "n", "d", "i", "m", "e", "n", "t", "o", "s">>}
affinityKeywords ==
  {<<"a", "f", "i", "n", "i", "d", "a", "d", "e">>,
   <<"r", "e", "l", "a", "c", "i", "o", "n", "a", "m", "e", "n", "t", "o">>,
   <<"e", "n", "g", "a", "j", "a", "m", "e", "n", "t", "o">>}

matchesAny(normalizedHeader, keywords) ==
  \E k \in keywords : includes(normalizedHeader, k)

\* claim keeping the first header that matched instead of the last
claim_firstWins(current, normalizedHeader, keywords, index) ==
  IF matchesAny(normalizedHeader, keywords) /\ current = NoColumn THEN index ELSE current

\* one field of columnMap after a header: overwritten by the header's index
\* when the header contains one of the field's keywords
claim(current, normalizedHeader, keywords, index) ==
  IF matchesAny(normalizedHeader, keywords) THEN index ELSE current

assignColumns(columnMap, normalizedHeader, index) ==
  [name      |-> claim(columnMap.name, normalizedHeader, nameKeywords, index),
   specialty |-> claim(columnMap.specialty, normalizedHeader, specialtyKeywords, index),
   volume    |-> claim(columnMap.volume, normalizedHeader, volumeKeywords, index),
   affinity  |-> claim(columnMap.affinity, normalizedHeader, affinityKeywords, index)]

\* the body of the headers.forEach callback of identifyColumns, for the
\* header at index (0-based)
identifyHeader(columnMap, header, index) ==
  assignColumns(columnMap, normalizeString(JSStr(header)), index)

RECURSIVE identifyColumnsFrom(_, _, _)
identifyColumnsFrom(headers, index, columnMap) ==
  IF index >= Len(headers) THEN columnMap
  ELSE identifyColumnsFrom(headers, index + 1,
                           identifyHeader(columnMap, headers[index + 1], index))

\* dataProcessor.identifyColumns
identifyColumns(headers) ==
  identifyColumnsFrom(headers, 0,
    [name |-> NoColumn, specialty |-> NoColumn, volume |-> NoColumn, affinity |-> NoColumn])

\* !columnMap.name : true of null and of index 0
nameColumnMissing(columnMap) == columnMap.name = NoColumn \/ columnMap.name = 0

\* A row of the grid is an array of strings; NullRow is a null entry of the
\* array handed to processRawData, on which row[...] throws a TypeError.
ArrayRow(cells) == [null |-> FALSE, cells |-> cells]
NullRow == [null |-> TRUE, cells |-> <<>>]

\* row[index]: undefined for a null index and beyond the end of the row
cellAt(row, index) ==
  IF index # NoColumn /\ index + 1 <= Len(row.cells)
  THEN JSStr(row.cells[index + 1]) ELSE Undefined

\* randomAt scaling Math.random() by 1000 instead of 100
randomAt_timesThousand(rnd, k) == 10 * rnd[(k % Len(rnd)) + 1]

\* the k-th value (k = 0, 1, ...) Math.random() * 100 returns, in thousandths
randomAt(rnd, k) == rnd[(k % Len(rnd)) + 1]

\* x || Math.random() * 100 : x when truthy, else the next value of the
\* stream; [v |-> the value, k |-> the number of values drawn so far]
orRandom(x, rnd, k) ==
  IF Truthy(x) THEN [v |-> x, k |-> k]
  ELSE [v |-> JSNum(randomAt(rnd, k)), k |-> k + 1]

\* Doctor with the id counted from the first data row (1, 2, ...) instead of
\* taken from the sheet row number
Doctor_idFromOne(rowNumber, name, processedSpecialty, segment, processedVolume, processedAffinity, priority) ==
  [id |-> rowNumber - 1,
   name |-> trim(name.s),
   specialty |-> processedSpecialty,
   segment |-> segment,
   volume |-> MathRound(processedVolume),
   affinity |-> MathRound(processedAffinity),
   priority |-> priority,
   originalRow |-> rowNumber]

\* the object processRow returns
Doctor(rowNumber, name, processedSpecialty, segment, processedVolume, processedAffinity, priority) ==
  [id |-> rowNumber,
   name |-> trim(name.s),
   specialty |-> processedSpecialty,
   segment |-> segment,
   volume |-> MathRound(processedVolume),
   affinity |-> MathRound(processedAffinity),
   priority |-> priority,
   originalRow |-> rowNumber]

\* processRow from the computation of priority on
withSegment(rowNumber, name, processedSpecialty, processedVolume, processedAffinity, segment, k) ==
  [kind |-> "doctor", k |-> k,
   doctor |-> Doctor(rowNumber, name, processedSpecialty, segment,
                     processedVolume, processedAffinity,
                     parsePriority(processedVolume, processedAffinity, segment))]

\* processRow from the computation of segment on
withProcessedValues(rowNumber, name, processedSpecialty, processedVolume, processedAffinity) ==
  withSegment(rowNumber, name, processedSpecialty, processedVolume.v,
              processedAffinity.v,
              parseSegment(processedVolume.v, processedAffinity.v),
              processedAffinity.k)

\* processRow from  processedAffinity = parseFloat(affinity) || random  on
withProcessedVolume(rowNumber, name, processedSpecialty, affinity, processedVolume, rnd) ==
  withProcessedValues(rowNumber, name, processedSpecialty, processedVolume,
                      orRandom(parseFloat(affinity.v), rnd, processedVolume.k))

\* processRow from  processedVolume = parseFloat(volume) || random  on
withAffinity(rowNumber, name, specialty, volume, affinity, rnd) ==
  withProcessedVolume(rowNumber, name, parseSpecialty(specialty), affinity,
                      orRandom(parseFloat(volume.v), rnd, affinity.k), rnd)

\* processRow from  affinity = row[columnMap.affinity] || random  on
withVolume(row, columnMap, rowNumber, name, volume, rnd) ==
  withAffinity(rowNumber, name,
               Or(cellAt(row, columnMap.specialty), JSStr(<<>>)),
               volume,
               orRandom(cellAt(row, columnMap.affinity), rnd, volume.k), rnd)

\* withName with the test of the name cell reduced to  !name : a name of
\* white space only is let through
withName_falsyOnly(row, columnMap, rowNumber, name, rnd, k) ==
  IF ~Truthy(name)
  THEN [kind |-> "null", k |-> k]
  ELSE withVolume(row, columnMap, rowNumber, name,
                  orRandom(cellAt(row, columnMap.volume), rnd, k), rnd)

\* processRow from the test of the name cell on
withName(row, columnMap, rowNumber, name, rnd, k) ==
  IF ~Truthy(name) \/ Len(normalizeString(name)) = 0
  THEN [kind |-> "null", k |-> k]
  ELSE withVolume(row, columnMap, rowNumber, name,
                  orRandom(cellAt(row, columnMap.volume), rnd, k), rnd)

\* processRow once the columns are identified
withColumnMap(row, columnMap, rowNumber, rnd, k) ==
  IF nameColumnMissing(columnMap) THEN [kind |-> "null", k |-> k]
  ELSE IF row.null THEN [kind |-> "throw", k |-> k]
  ELSE withName(row, columnMap, rowNumber, cellAt(row, columnMap.name), rnd, k)

\* dataProcessor.processRow.  rnd is the stream of Math.random() * 100 values
\* and k the number of values already drawn.  The result is
\*   [kind |-> "throw" | "null" | "doctor", doctor |-> ..., k |-> draws so far]
processRow(row, headers, rowNumber, rnd, k) ==
  withColumnMap(row, identifyColumns(headers), rowNumber, rnd, k)

\* pushRow without the try/catch around processRow: a throw escapes the callback
pushRow_noCatch(processedDoctors, r) ==
  [threw |-> r.kind = "throw",
   doctors |-> IF r.kind = "doctor" THEN Append(processedDoctors, r.doctor)
               ELSE processedDoctors,
   k |-> r.k]

\* the forEach callback of processRawData with its try/catch: the doctor is
\* pushed; a null and a throw leave processedDoctors as it is
pushRow(processedDoctors, r) ==
  [threw |-> FALSE,
   doctors |-> IF r.kind = "doctor" THEN Append(processedDoctors, r.doctor)
               ELSE processedDoctors,
   k |-> r.k]

\* the dataRows.forEach loop of processRawData from data row number index
\* (0-based) on: a row whose processRow throws is caught and skipped.
\* The result is [threw |-> BOOLEAN, doctors |-> ..., k |-> draws so far]
RECURSIVE afterRow(_, _, _, _, _)
RECURSIVE forEachRow(_, _, _, _, _, _)
forEachRow(dataRows, headers, index, processedDoctors, rnd, k) ==
  IF index >= Len(dataRows)
  THEN [threw |-> FALSE, doctors |-> processedDoctors, k |-> k]
  ELSE afterRow(dataRows, headers, index, rnd,
                pushRow(processedDoctors,
                        processRow(dataRows[index + 1], headers, index + 2, rnd, k)))

\* the loop goes on with the next row, unless the callback let a throw escape
afterRow(dataRows, headers, index, rnd, pushed) ==
  IF pushed.threw THEN pushed
  ELSE forEachRow(dataRows, headers, index + 1, pushed.doctors, rnd, pushed.k)

\* what processRawData returns or throws, given the outcome of its loop
returnProcessed(r) == [threw |-> r.threw, doctors |-> r.doctors]

\* the least number of grid rows processRawData accepts (header + one row)
MinGridRows == 2

\* processRawData with the row-count guard off by one: a grid holding the
\* header row alone is accepted
processRawData_headerOnly(rawData, rnd) ==
  IF rawData.null \/ Len(rawData.rows) < MinGridRows - 1
  THEN [threw |-> TRUE, doctors |-> <<>>]
  ELSE returnProcessed(forEachRow(Tail(rawData.rows), rawData.rows[1].cells,
                                  0, <<>>, rnd, 0))

\* dataProcessor.processRawData.  rawData is [null |-> BOOLEAN, rows |-> ...];
\* rows[1] is the header row (an array of strings), the rest are data rows.
processRawData(rawData, rnd) ==
  IF rawData.null \/ Len(rawData.rows) < MinGridRows
  THEN [threw |-> TRUE, doctors |-> <<>>]
  ELSE returnProcessed(forEachRow(Tail(rawData.rows), rawData.rows[1].cells,
                                  0, <<>>, rnd, 0))

(***************************************************************************)
(* mainLoader                                                              *)
(***************************************************************************)
\* mainLoader.getFallbackData
loaderFallbackData ==
  <<[id |-> 1, name |-> <<"D", "r", ".", " ", "J", "o", "ã", "o", " ", "S", "i", "l", "v", "a">>,
     specialty |-> "cardiologia", segment |-> "blindar", volume |-> 85, affinity |-> 90, priority |-> "high"],
    [id |-> 2, name |-> <<"D", "r", "a", ".", " ", "M", "a", "r", "i", "a", " ", "S", "a", "n", "t", "o", "s">>,
     specialty |-> "neurologia", segment |-> "blindar", volume |-> 82, affinity |-> 88, priority |-> "high"],
    [id |-> 3, name |-> <<"D", "r", ".", " ", "P", "e", "d", "r", "o", " ", "O", "l", "i", "v", "e", "i", "r", "a">>,
     specialty |-> "ortopedia", segment |-> "incentivar", volume |-> 45, affinity |-> 88, priority |-> "new-opportunities"]>>

\* excelParser.parseWorkbook: throws when the SheetJS global is undefined
\* ("missing") or XLSX.read rejects the bytes ("unreadable")
parseWorkbookThrows(xlsx) == xlsx # "ok"

\* excelParser.extractSheetData: throws when workbook.Sheets[targetSheet] is
\* absent; otherwise the grid sheet_to_json yields
extractSheetDataThrows(sheetFound) == ~sheetFound

\* The part of mainLoader.loadData that runs, without suspending, once the
\* file's bytes are there: parseWorkbook, extractSheetData, processRawData,
\* and the catch that turns any throw into the fallback data.
\*   failure: the stage that threw ("none" when none did)
\*   stages : the stages entered, in order
\*   result : the array loadData resolves with
afterProcessRawData(processed) ==
  IF processed.threw
  THEN [failure |-> "BuildingRecords",
        stages |-> <<"Parsing", "Extracting", "BuildingRecords">>,
        built |-> <<>>, result |-> loaderFallbackData]
  ELSE [failure |-> "none",
        stages |-> <<"Parsing", "Extracting", "BuildingRecords">>,
        built |-> processed.doctors, result |-> processed.doctors]

\* loadDataFromBytes going on to the later stages after parseWorkbook threw
loadDataFromBytes_noShortCircuit(xlsx, sheetFound, grid, rnd) ==
  IF parseWorkbookThrows(xlsx)
  THEN [failure |-> "Parsing", stages |-> <<"Parsing", "Extracting", "BuildingRecords">>,
        built |-> processRawData(grid, rnd).doctors, result |-> loaderFallbackData]
  ELSE IF extractSheetDataThrows(sheetFound)
  THEN [failure |-> "Extracting", stages |-> <<"Parsing", "Extracting">>,
        built |-> <<>>, result |-> loaderFallbackData]
  ELSE afterProcessRawData(processRawData(grid, rnd))

loadDataFromBytes(xlsx, sheetFound, grid, rnd) ==
  IF parseWorkbookThrows(xlsx)
  THEN [failure |-> "Parsing", stages |-> <<"Parsing">>,
        built |-> <<>>, result |-> loaderFallbackData]
  ELSE IF extractSheetDataThrows(sheetFound)
  THEN [failure |-> "Extracting", stages |-> <<"Parsing", "Extracting">>,
        built |-> <<>>, result |-> loaderFallbackData]
  ELSE afterProcessRawData(processRawData(grid, rnd))

(***************************************************************************)
(* Inputs of the ingestion pipeline                                        *)
(***************************************************************************)
\* the greatest number of data rows of a grid
MaxRows == 2

\* header rows
HeadersA == <<<<"N", "o", "m", "e">>, <<"E", "s", "p", "e", "c", "i", "a", "l", "i", "d", "a", "d", "e">>, <<"V", "o", "l", "u", "m", "e">>, <<"A", "f", "i", "n", "i", "d", "a", "d", "e">>>>
HeadersB == <<<<"E", "s", "p", "e", "c", "i", "a", "l", "i", "d", "a", "d", "e">>, <<" ", "N", "O", "M", "E", " ">>, <<"V", "o", "l", "u", "m", "e">>, <<"A", "f", "i", "n", "i", "d", "a", "d", "e">>>>
HeadersC == <<<<"C", "o", "d", "i", "g", "o">>, <<"C", "o", "n", "s", "u", "l", "t", "a", "s">>>>

\* data rows under HeadersA
RowsA ==
  {ArrayRow(<<<<"D", "r", ".", " ", "T", "e", "s", "t", "e">>, <<"C", "a", "r", "d", "i", "o">>, <<"8", "5">>, <<"9", "0">>>>),
   ArrayRow(<<<<>>, <<"N", "e", "u", "r", "o">>, <<"1", "0">>, <<"1", "0">>>>)}

\* data rows under HeadersB
RowsB ==
  {ArrayRow(<<<<"C", "a", "r", "d", "i", "o">>, <<"D", "r", ".", " ", "T", "e", "s", "t", "e">>, <<"8", "5">>, <<"9", "0">>>>),
   ArrayRow(<<<<"N", "e", "u", "r", "o">>, <<" ", "D", "r", "a", ".", " ", "A", "n", "a", " ">>, <<"5", "9", ".", "5">>, <<"9", "0">>>>),
   ArrayRow(<<<<"D", "e", "r", "m", "a">>, <<"D", "r", ".", " ", "R", "u", "i">>, <<"5", "9", ".", "9", "9", "9">>, <<"6", "0">>>>),
   ArrayRow(<<<<>>, <<"D", "r", ".", " ", "Z", "e", "r", "o">>, <<"0">>, <<"a", "b", "c">>>>),
   ArrayRow(<<<<"O", "r", "t", "o">>, <<" ", " ", " ">>, <<"5", "0">>, <<"5", "0">>>>),
   ArrayRow(<<<<"U", "r", "o">>, <<>>, <<"2", "0">>, <<"3", "0">>>>),
   ArrayRow(<<<<"C", "l", "i", "n", "i", "c", "a">>, <<"D", "r", ".", " ", "N", "o", "v", "o">>, <<"2", "0">>, <<"3", "0">>>>)}
  \cup {ArrayRow(<<>>)}

\* data rows under HeadersC
RowsC ==
  {ArrayRow(<<<<"7">>, <<"5", "0">>>>)}

\* the sequences of at most n elements of S
RECURSIVE SeqsUpTo(_, _)
SeqsUpTo(S, n) ==
  IF n = 0 THEN {<<>>}
  ELSE LET shorter == SeqsUpTo(S, n - 1)
       IN  shorter \cup {Append(s, x) : s \in {t \in shorter : Len(t) = n - 1}, x \in S}

GridOf(headers, dataRows) == [null |-> FALSE, rows |-> <<ArrayRow(headers)>> \o dataRows]

\* a sheet without any row
EmptyGrid == [null |-> FALSE, rows |-> <<>>]
\* rawData = null
NullGrid == [null |-> TRUE, rows |-> <<>>]

\* the grids sheet_to_json can yield: arrays of arrays of strings
SheetGrids ==
  {EmptyGrid}
  \cup {GridOf(HeadersA, rs) : rs \in SeqsUpTo(RowsA, MaxRows)}
  \cup {GridOf(HeadersB, rs) : rs \in SeqsUpTo(RowsB, MaxRows)}
  \cup {GridOf(HeadersC, rs) : rs \in SeqsUpTo(RowsC, MaxRows)}

\* the arguments of a direct call of dataProcessor.processRawData (exposed as
\* ExcelLoader.debug.dataProcessor): also null, and arrays with null entries
DirectGrids ==
  {NullGrid}
  \cup {GridOf(HeadersB, rs) : rs \in SeqsUpTo(RowsB \cup {NullRow}, MaxRows)}

\* streams of the values of Math.random() * 100, in thousandths: each in [0, 100)
RandomStreams ==
  {<<12345, 99600, 0, 59500>>, <<70000, 30250, 85500, 39999>>}

\* The world a loadData run meets: how fetch settles, how response.arrayBuffer
\* settles, the state of the SheetJS global, whether the target sheet is in the
\* workbook, and the grid of that sheet.
LoadEnv(fetch, body, xlsx, sheetFound, grid) ==
  [fetch |-> fetch, body |-> body, xlsx |-> xlsx, sheetFound |-> sheetFound, grid |-> grid]

\* the grid of scenario A
ScenarioAGrid ==
  GridOf(HeadersA, <<ArrayRow(<<<<"D", "r", ".", " ", "T", "e", "s", "t", "e">>, <<"C", "a", "r", "d", "i", "o">>, <<"8", "5">>, <<"9", "0">>>>)>>)

\* a sheet every stage accepts, behind the failures of the earlier stages
GoodGrid == GridOf(HeadersB, <<ArrayRow(<<<<"C", "a", "r", "d", "i", "o">>, <<"D", "r", ".", " ", "T", "e", "s", "t", "e">>, <<"8", "5">>, <<"9", "0">>>>)>>)

LoadEnvs ==
  {LoadEnv("ok", "ok", "ok", TRUE, g) : g \in SheetGrids}
  \cup {LoadEnv(f, "ok", "ok", TRUE, GoodGrid) : f \in {"httpError", "rejected"}}
  \cup {LoadEnv("ok", "rejected", "ok", TRUE, GoodGrid)}
  \cup {LoadEnv("ok", "ok", x, TRUE, GoodGrid) : x \in {"missing", "unreadable"}}
  \cup {LoadEnv("ok", "ok", "ok", FALSE, GoodGrid)}

NoEnv == LoadEnv("none", "none", "none", FALSE, EmptyGrid)

\* mainLoader.loadData as a function of the world it meets: the array it
\* resolves with
loadDataResult(e, rnd) ==
  IF e.fetch # "ok" \/ e.body # "ok" THEN loaderFallbackData
  ELSE loadDataFromBytes(e.xlsx, e.sheetFound, e.grid, rnd).result

(***************************************************************************)
(* medicalData and filtersModule of the dashboard                          *)
(*                                                                         *)
(* The operators below take and return the dashboard's memory as a record  *)
(*   [doctors, isLoaded, currentFilters, activeButtons, filtered, ui,      *)
(*    timers, rendered]                                                    *)
(* doctors, isLoaded: medicalData; currentFilters: filtersModule;          *)
(* activeButtons: the quick-filter buttons whose classList holds 'active'; *)
(* filtered: the list applyFilters last handed to updateUI;                *)
(* ui: the quadrants and KPI cards updateUI last wrote;                    *)
(* timers: the pending setTimeout(applyFilters, 100) callbacks;            *)
(* rendered: applyFilters has run since doctors was last replaced.         *)
(***************************************************************************)
\* medicalData.getFallbackData
dashboardFallbackData ==
  <<[id |-> 1, name |-> <<"D", "r", ".", " ", "J", "o", "ã", "o", " ", "S", "i", "l", "v", "a">>,
     specialty |-> "cardiologia", segment |-> "blindar", volume |-> 85, affinity |-> 90, priority |-> "high"],
    [id |-> 2, name |-> <<"D", "r", "a", ".", " ", "M", "a", "r", "i", "a", " ", "S", "a", "n", "t", "o", "s">>,
     specialty |-> "neurologia", segment |-> "blindar", volume |-> 82, affinity |-> 88, priority |-> "high"],
    [id |-> 3, name |-> <<"D", "r", ".", " ", "P", "e", "d", "r", "o", " ", "O", "l", "i", "v", "e", "i", "r", "a">>,
     specialty |-> "ortopedia", segment |-> "blindar", volume |-> 79, affinity |-> 85, priority |-> "high"],
    [id |-> 4, name |-> <<"D", "r", "a", ".", " ", "A", "n", "a", " ", "C", "o", "s", "t", "a">>,
     specialty |-> "ginecologia", segment |-> "blindar", volume |-> 87, affinity |-> 92, priority |-> "strategic"],
    [id |-> 5, name |-> <<"D", "r", ".", " ", "C", "a", "r", "l", "o", "s", " ", "F", "e", "r", "r", "e", "i", "r", "a">>,
     specialty |-> "urologia", segment |-> "blindar", volume |-> 83, affinity |-> 89, priority |-> "high"],
    [id |-> 11, name |-> <<"D", "r", ".", " ", "A", "n", "d", "r", "é", " ", "R", "i", "b", "e", "i", "r", "o">>,
     specialty |-> "oncologia", segment |-> "incentivar", volume |-> 45, affinity |-> 88, priority |-> "new-opportunities"],
    [id |-> 12, name |-> <<"D", "r", "a", ".", " ", "B", "e", "a", "t", "r", "i", "z", " ", "G", "o", "m", "e", "s">>,
     specialty |-> "pediatria", segment |-> "incentivar", volume |-> 42, affinity |-> 85, priority |-> "new-opportunities"],
    [id |-> 13, name |-> <<"D", "r", ".", " ", "G", "a", "b", "r", "i", "e", "l", " ", "T", "o", "r", "r", "e", "s">>,
     specialty |-> "psiquiatria", segment |-> "incentivar", volume |-> 48, affinity |-> 90, priority |-> "high"],
    [id |-> 21, name |-> <<"D", "r", ".", " ", "R", "o", "b", "e", "r", "t", "o", " ", "S", "i", "l", "v", "a">>,
     specialty |-> "cirurgia-geral", segment |-> "avaliar", volume |-> 85, affinity |-> 45, priority |-> "strategic"],
    [id |-> 22, name |-> <<"D", "r", "a", ".", " ", "S", "a", "n", "d", "r", "a", " ", "L", "o", "p", "e", "s">>,
     specialty |-> "medicina-interna", segment |-> "avaliar", volume |-> 82, affinity |-> 42, priority |-> "strategic"],
    [id |-> 26, name |-> <<"D", "r", ".", " ", "F", "e", "l", "i", "p", "e", " ", "S", "a", "n", "t", "o", "s">>,
     specialty |-> "outras", segment |-> "conquistar", volume |-> 30, affinity |-> 35, priority |-> "new-opportunities"],
    [id |-> 27, name |-> <<"D", "r", "a", ".", " ", "G", "a", "b", "r", "i", "e", "l", "a", " ", "L", "i", "m", "a">>,
     specialty |-> "outras", segment |-> "conquistar", volume |-> 32, affinity |-> 38, priority |-> "new-opportunities"]>>

\* the value clearAllFilters gives both range sliders
SliderResetValue == 50

\* the initial value of filtersModule.currentFilters, and the object
\* clearAllFilters assigns
defaultFilters ==
  [search |-> <<>>, segments |-> <<>>, specialty |-> "",
   volume |-> [min |-> 0, max |-> 100],
   affinity |-> [min |-> 0, max |-> 100],
   quickFilters |-> <<>>]

\* the text of a priority key
priorityText ==
  ("strategic" :> <<"s", "t", "r", "a", "t", "e", "g", "i", "c">>) @@
  ("high" :> <<"h", "i", "g", "h">>) @@
  ("new-opportunities" :> <<"n", "e", "w", "-", "o", "p", "p", "o", "r", "t", "u", "n", "i", "t", "i", "e", "s">>)

\* Array.prototype.includes
arrayIncludes(arr, x) == \E i \in DOMAIN arr : arr[i] = x

\* the filter steps of applyFilters, in the order of the code
bySearch(ds, f) ==
  IF f.search # <<>>
  THEN SelectSeq(ds, LAMBDA d : includes(toLowerCase(d.name), toLowerCase(f.search)))
  ELSE ds

\* bySegments without the length test: an empty selection matches no doctor
bySegments_matchNothing(ds, f) ==
  SelectSeq(ds, LAMBDA d : arrayIncludes(f.segments, d.segment))

bySegments(ds, f) ==
  IF Len(f.segments) > 0
  THEN SelectSeq(ds, LAMBDA d : arrayIncludes(f.segments, d.segment))
  ELSE ds

bySpecialty(ds, f) ==
  IF f.specialty # ""
  THEN SelectSeq(ds, LAMBDA d : d.specialty = f.specialty)
  ELSE ds

\* byVolume with the comparison turned round: volume.min as an upper bound
byVolume_upperBound(ds, f) == SelectSeq(ds, LAMBDA d : d.volume <= f.volume.min)

byVolume(ds, f) == SelectSeq(ds, LAMBDA d : d.volume >= f.volume.min)

byAffinity(ds, f) == SelectSeq(ds, LAMBDA d : d.affinity >= f.affinity.min)

\* doctor.priority === filter.replace('-', '_')
quickFilterMatches(d, filter) == priorityText[d.priority] = replaceFirst(filter, "-", "_")

byQuickFilters(ds, f) ==
  IF Len(f.quickFilters) > 0
  THEN SelectSeq(ds, LAMBDA d :
         \E i \in DOMAIN f.quickFilters : quickFilterMatches(d, f.quickFilters[i]))
  ELSE ds

\* the list applyFilters computes from medicalData.doctors and currentFilters
filterDoctors(ds, f) ==
  byQuickFilters(byAffinity(byVolume(bySpecialty(bySegments(bySearch(ds, f), f), f), f), f), f)

\* the doctors of one segment, as updateUI groups them for updateQuadrant
quadrant(filtered, segment) == SelectSeq(filtered, LAMBDA d : d.segment = segment)

\* Number.prototype.toFixed(1) of (part / whole) * 100, in tenths
percentageTenths(part, whole) == (2000 * part + whole) \div (2 * whole)

\* updateKPIs counting only the doctors of priority high as opportunities
updateKPIs_highOnly(filtered, allDoctors) ==
  [totalMedicos |-> Len(filtered),
   segmentados |-> Len(filtered),
   percentage |-> IF Len(filtered) > 0 THEN percentageTenths(Len(filtered), Len(allDoctors))
                  ELSE 0,
   oportunidades |-> Len(SelectSeq(filtered, LAMBDA d : d.priority = "high"))]

\* filtersModule.updateKPIs: the numbers written into the KPI cards
updateKPIs(filtered, allDoctors) ==
  [totalMedicos |-> Len(filtered),
   segmentados |-> Len(filtered),
   percentage |-> IF Len(filtered) > 0 THEN percentageTenths(Len(filtered), Len(allDoctors))
                  ELSE 0,
   oportunidades |->
     Len(SelectSeq(filtered, LAMBDA d : d.priority = "high" \/ d.priority = "new-opportunities"))]

\* filtersModule.updateUI: the four quadrants and the KPI cards
updateUI(filtered, allDoctors) ==
  [blindar |-> quadrant(filtered, "blindar"),
   incentivar |-> quadrant(filtered, "incentivar"),
   avaliar |-> quadrant(filtered, "avaliar"),
   conquistar |-> quadrant(filtered, "conquistar"),
   kpis |-> updateKPIs(filtered, allDoctors)]

\* the quadrants and KPI cards before updateUI has run: the script has
\* written nothing into them
nothingRendered ==
  [blindar |-> <<>>, incentivar |-> <<>>, avaliar |-> <<>>, conquistar |-> <<>>,
   kpis |-> [totalMedicos |-> 0, segmentados |-> 0, percentage |-> 0, oportunidades |-> 0]]

\* applyFilters narrowing the collection itself to the filtered list
applyFilters_narrowing(S) ==
  [S EXCEPT !.filtered = filterDoctors(S.doctors, S.currentFilters), !.rendered = TRUE,
            !.ui = updateUI(filterDoctors(S.doctors, S.currentFilters), S.doctors),
            !.doctors = filterDoctors(S.doctors, S.currentFilters)]

\* filtersModule.applyFilters: the list is computed from a copy of
\* medicalData.doctors and handed to updateUI
applyFilters(S) ==
  [S EXCEPT !.filtered = filterDoctors(S.doctors, S.currentFilters), !.rendered = TRUE,
            !.ui = updateUI(filterDoctors(S.doctors, S.currentFilters), S.doctors)]

\* filtersModule.updateSearchFilter
updateSearchFilter(S, query) ==
  applyFilters([S EXCEPT !.currentFilters.search = trim(query)])

\* filtersModule.clearSearch (the search input is in the page)
clearSearch(S) == updateSearchFilter(S, <<>>)

\* segmentsAfter pushing the segment without the includes test
segmentsAfter_alwaysPush(segments, segment, isChecked) ==
  IF isChecked THEN Append(segments, segment)
  ELSE SelectSeq(segments, LAMBDA s : s # segment)

\* the segments array after updateSegmentFilter
segmentsAfter(segments, segment, isChecked) ==
  IF isChecked
  THEN IF arrayIncludes(segments, segment) THEN segments ELSE Append(segments, segment)
  ELSE SelectSeq(segments, LAMBDA s : s # segment)

\* filtersModule.updateSegmentFilter
updateSegmentFilter(S, segment, isChecked) ==
  applyFilters([S EXCEPT !.currentFilters.segments = segmentsAfter(@, segment, isChecked)])

\* filtersModule.updateSpecialtyFilter
updateSpecialtyFilter(S, specialty) ==
  applyFilters([S EXCEPT !.currentFilters.specialty = specialty])

\* filtersModule.updateVolumeRange
updateVolumeRange(S, value) ==
  applyFilters([S EXCEPT !.currentFilters.volume.min = value])

\* filtersModule.updateAffinityRange
updateAffinityRange(S, value) ==
  applyFilters([S EXCEPT !.currentFilters.affinity.min = value])

\* filtersModule.toggleQuickFilter: the button's 'active' class decides
toggleQuickFilter(S, filterType) ==
  IF filterType \in S.activeButtons
  THEN applyFilters([S EXCEPT !.activeButtons = @ \ {filterType},
                              !.currentFilters.quickFilters =
                                 SelectSeq(@, LAMBDA f : f # filterType)])
  ELSE applyFilters([S EXCEPT !.activeButtons = @ \cup {filterType},
                              !.currentFilters.quickFilters =
                                 IF arrayIncludes(@, filterType) THEN @
                                 ELSE Append(@, filterType)])

\* clearAllFilters: if (volumeRange) { volumeRange.value = 50; this.updateVolumeRange(50) }
resetVolumeRange(S, rangeSliders) ==
  IF rangeSliders THEN updateVolumeRange(S, SliderResetValue) ELSE S

\* clearAllFilters: if (affinityRange) { affinityRange.value = 50; this.updateAffinityRange(50) }
resetAffinityRange(S, rangeSliders) ==
  IF rangeSliders THEN updateAffinityRange(S, SliderResetValue) ELSE S

\* filtersModule.clearAllFilters
clearAllFilters(S, rangeSliders) ==
  applyFilters(
    [resetAffinityRange(
       resetVolumeRange([S EXCEPT !.currentFilters = defaultFilters], rangeSliders),
       rangeSliders)
     EXCEPT !.activeButtons = {}])

\* useFallbackData resetting the filters along with the collection
useFallbackData_resetting(S) ==
  [S EXCEPT !.doctors = dashboardFallbackData, !.isLoaded = TRUE, !.rendered = FALSE,
            !.currentFilters = defaultFilters, !.activeButtons = {}]

\* the catch block of medicalData.loadFromExcel
useFallbackData(S) ==
  [S EXCEPT !.doctors = dashboardFallbackData, !.isLoaded = TRUE, !.rendered = FALSE]

\* afterLoadData appending the loaded doctors to the collection in place
afterLoadData_merging(S, loadedDoctors) ==
  IF Len(loadedDoctors) > 0
  THEN [S EXCEPT !.doctors = @ \o loadedDoctors, !.isLoaded = TRUE, !.timers = @ + 1,
                 !.rendered = FALSE]
  ELSE useFallbackData(S)

\* medicalData.loadFromExcel once ExcelLoader.loadData has resolved with
\* loadedDoctors: a non-empty array becomes the collection and a refresh is
\* scheduled; an empty one throws into the catch block
afterLoadData(S, loadedDoctors) ==
  IF Len(loadedDoctors) > 0
  THEN [S EXCEPT !.doctors = loadedDoctors, !.isLoaded = TRUE, !.timers = @ + 1,
                 !.rendered = FALSE]
  ELSE useFallbackData(S)

\* loadFromExcel without its catch block: a page without ExcelLoader, or an
\* empty result, leaves the collection as it was
loadFromExcel_noCatch(S, excelLoaderDefined, loadedDoctors) ==
  IF excelLoaderDefined /\ Len(loadedDoctors) > 0 THEN afterLoadData(S, loadedDoctors)
  ELSE S

\* medicalData.loadFromExcel, from the call to the value it resolves with
loadFromExcel(S, excelLoaderDefined, loadedDoctors) ==
  IF ~excelLoaderDefined THEN useFallbackData(S)
  ELSE afterLoadData(S, loadedDoctors)

\* filtersModule.setupRangeSliders, volumeValue and affinityValue being the
\* values the sliders have in the page
setupRangeSliders(S, rangeSliders, volumeValue, affinityValue) ==
  IF rangeSliders
  THEN updateAffinityRange(updateVolumeRange(S, volumeValue), affinityValue)
  ELSE S

\* filtersModule.reloadData after its await: clearAllFilters, then applyFilters
afterReload(S, rangeSliders) == applyFilters(clearAllFilters(S, rangeSliders))

\* filtersModule.updateDataStatus(status, message): the class of the status
\* dot and the text shown, count being the number the message carries
shownStatus(status, message, count) == [status |-> status, message |-> message, count |-> count]

\* the status elements before updateDataStatus has run
noStatus == shownStatus("none", "", 0)

\* initModule.setup after filtersModule.init: the status it shows
statusAfterSetup(loaded, allDoctors) ==
  IF loaded THEN shownStatus("success", "médicos carregados", Len(allDoctors))
  ELSE shownStatus("error", "Usando dados de fallback", 0)

\* filtersModule.reloadData after clearAllFilters and applyFilters: the
\* status it shows (its catch block shows 'Erro ao recarregar dados')
statusAfterReload(allDoctors) == shownStatus("success", "médicos carregados", Len(allDoctors))

(***************************************************************************)
(* Inputs of the dashboard                                                 *)
(***************************************************************************)
\* the greatest number of reloads in flight and refreshes pending together
MaxPending == 1

\* a sheet of four doctors: blindar, incentivar, conquistar, conquistar
DashboardGrid ==
  GridOf(HeadersB, <<ArrayRow(<<<<"C", "a", "r", "d", "i", "o">>, <<"D", "r", ".", " ", "T", "e", "s", "t", "e">>, <<"8", "5">>, <<"9", "0">>>>),
                     ArrayRow(<<<<"N", "e", "u", "r", "o">>, <<" ", "D", "r", "a", ".", " ", "A", "n", "a", " ">>, <<"5", "9", ".", "5">>, <<"9", "0">>>>),
                     ArrayRow(<<<<"C", "l", "i", "n", "i", "c", "a">>, <<"D", "r", ".", " ", "N", "o", "v", "o">>, <<"2", "0">>, <<"3", "0">>>>),
                     ArrayRow(<<<<"U", "r", "o">>, <<"D", "r", ".", " ", "M", "e", "i", "o">>, <<"5", "0">>, <<"5", "0">>>>)>>)

\* the stream Math.random follows in the dashboard's page
DashboardRandomStream == <<12345, 99600, 0, 59500>>

\* the worlds the dashboard's loads meet: a good sheet, a sheet whose rows
\* are all rejected, an unreachable file
DashboardEnvs ==
  {LoadEnv("ok", "ok", "ok", TRUE, DashboardGrid),
   LoadEnv("ok", "ok", "ok", TRUE, ScenarioAGrid),
   LoadEnv("rejected", "ok", "ok", TRUE, GoodGrid)}

\* what ExcelLoader.loadData can resolve with in the dashboard's page
DashboardLoads == {loadDataResult(e, DashboardRandomStream) : e \in DashboardEnvs}

\* texts typed into the search input
SearchTexts == {<<>>, <<" ", "D", "R", "A", " ">>}

\* the segment checkboxes
SegmentBoxes == {"blindar", "conquistar"}

\* the options of the specialty select
SpecialtyOptions == {"", "cardiologia"}

\* positions of the range sliders
SliderValues == {0, 50}

\* the data-filter attributes of the quick-filter buttons pressed: one tag
\* without a hyphen and the tag with one
QuickFilterTags ==
  {<<"h", "i", "g", "h">>,
   <<"n", "e", "w", "-", "o", "p", "p", "o", "r", "t", "u", "n", "i", "t", "i", "e", "s">>}

(***************************************************************************)
(* State                                                                   *)
(***************************************************************************)
VARIABLES
  \* one run of ExcelLoader
  loadPc,      \* "idle", "Fetching", "ReadingBody", "Loaded", "resolved";
               \* "returned", "threw" end a direct call of processRawData
  env,         \* the LoadEnv of the run
  rnd,         \* the stream of Math.random() * 100 values
  failure,     \* the stage whose throw loadData caught, or "none"
  stages,      \* the stages entered, in order
  built,       \* the array processRawData returned
  loadResult   \* the array loadData resolved with

loaderVars == <<loadPc, env, rnd, failure, stages, built, loadResult>>

VARIABLES
  \* the dashboard
  page,             \* what the page holds: [rangeSliders |-> the two range
                    \* sliders are in the document, excelLoader |-> the
                    \* ExcelLoader global is defined]
  setupPc,          \* initModule.setup: "start", "loading" (awaiting
                    \* loadFromExcel), "ready" (filtersModule.init has run)
  doctors,          \* medicalData.doctors
  isLoaded,         \* medicalData.isLoaded
  currentFilters,   \* filtersModule.currentFilters
  activeButtons,    \* the quick-filter buttons of class 'active'
  filteredDoctors,  \* the list applyFilters last handed to updateUI
  ui,               \* what updateUI last wrote: the four quadrants and the KPI cards
  applyTimers,      \* pending setTimeout(applyFilters, 100) callbacks
  reloadsInFlight,  \* reloadData calls awaiting loadFromExcel
  dataStatus,       \* what updateDataStatus last showed: [status, message, count]
  rendered          \* applyFilters has run since medicalData.doctors was
                    \* last replaced

dashboardVars ==
  <<page, setupPc, doctors, isLoaded, currentFilters, activeButtons,
    filteredDoctors, ui, applyTimers, reloadsInFlight, dataStatus, rendered>>

VARIABLES
  \* a direct call of a classifier of utils
  utilsCall         \* [fn |-> "none"] before the call; after it the function
                    \* called, its arguments and the value it returned

utilsVars == <<utilsCall>>

\* no classifier has been called
NoCall == [fn |-> "none"]

(***************************************************************************)
(* utils.debounce                                                          *)
(***************************************************************************)
\* the wait of the search input's debounce, in milliseconds
DebounceWait == 300

\* clearTimeout(id) on the table of pending timers; an id that is not
\* pending, undefined included, clears nothing
clearTimeout(pending, id) == {t \in pending : t.id # id}

\* setTimeout(later, wait) at time t, the browser handing out the handle id
setTimeout(pending, id, t, wait) == pending \cup {[id |-> id, due |-> t + wait]}

\* executedFunction without its clearTimeout
executedFunction_noClear(D, id, t) ==
  [timeout |-> id, pending |-> setTimeout(D.pending, id, t, DebounceWait)]

\* the function utils.debounce returns, called at time t: D is the closure
\* variable timeout with the table of pending timers
executedFunction(D, id, t) ==
  [timeout |-> id,
   pending |-> setTimeout(clearTimeout(D.pending, D.timeout), id, t, DebounceWait)]

\* the callback later, the timer that ran it gone from the table, up to its
\* call of func
later(D, id) ==
  [D EXCEPT !.pending = clearTimeout(clearTimeout(@, id), D.timeout)]

VARIABLES
  \* the search input under the clock
  now,              \* the time in milliseconds
  searchBox,        \* the value of #search-input
  timeout,          \* the variable timeout of the debounce closure
  pendingTimers,    \* the pending setTimeout(later, 300) callbacks: [id, due]
  searchLog         \* what happened to the search, in order: input events,
                    \* clicks of #search-clear, runs of the debounced listener

debounceVars == <<now, searchBox, timeout, pendingTimers, searchLog>>

VARIABLES
  \* the reloads requested, in the order of the clicks
  reloadRequests    \* one record per reloadData call: load, the array its
                    \* ExcelLoader.loadData resolves with; order, its place in
                    \* the order of completion (0 while it awaits its load)

reloadVars == <<reloadRequests>>

vars == <<loaderVars, dashboardVars, utilsVars, debounceVars, reloadVars>>

\* ExcelLoader before any call, in a page whose dashboard has not started
InitLoader ==
  /\ loadPc = "idle"
  /\ env = NoEnv
  /\ rnd \in RandomStreams
  /\ failure = "none"
  /\ stages = <<>>
  /\ built = <<>>
  /\ loadResult = <<>>
  /\ page = [rangeSliders |-> TRUE, excelLoader |-> TRUE]
  /\ setupPc = "start"
  /\ doctors = <<>>
  /\ isLoaded = FALSE
  /\ currentFilters = defaultFilters
  /\ activeButtons = {}
  /\ filteredDoctors = <<>>
  /\ ui = nothingRendered
  /\ applyTimers = 0
  /\ reloadsInFlight = 0
  /\ dataStatus = noStatus
  /\ rendered = FALSE
  /\ utilsCall = NoCall
  /\ now = 0
  /\ searchBox = <<>>
  /\ timeout = Undefined
  /\ pendingTimers = {}
  /\ searchLog = <<>>
  /\ reloadRequests = <<>>

\* mainLoader.loadData up to its first await: fileLoader.loadExcelFile calls fetch
loadData ==
  /\ loadPc = "idle"
  /\ \E e \in LoadEnvs : env' = e
  /\ loadPc' = "Fetching"
  /\ stages' = <<"Fetching">>
  /\ UNCHANGED <<rnd, failure, built, loadResult>>
  /\ UNCHANGED <<dashboardVars, utilsVars, debounceVars, reloadVars>>

\* the catch block of loadData: the run resolves with the fallback data
catchAndFallback(stage) ==
  /\ failure' = stage
  /\ built' = <<>>
  /\ loadResult' = loaderFallbackData
  /\ loadPc' = "resolved"

\* fetch settles: loadExcelFile throws on a rejection and on a non-ok status,
\* and otherwise awaits response.arrayBuffer()
fetchSettles ==
  /\ loadPc = "Fetching"
  /\ IF env.fetch = "ok"
     THEN /\ loadPc' = "ReadingBody"
          /\ UNCHANGED <<failure, built, loadResult>>
     ELSE catchAndFallback("Fetching")
  /\ UNCHANGED <<env, rnd, stages>>
  /\ UNCHANGED <<dashboardVars, utilsVars, debounceVars, reloadVars>>

\* response.arrayBuffer() settles: on a rejection loadExcelFile throws;
\* otherwise loadExcelFile resolves with the bytes, and loadData is to resume
arrayBufferSettles ==
  /\ loadPc = "ReadingBody"
  /\ IF env.body = "ok"
     THEN /\ loadPc' = "Loaded"
          /\ UNCHANGED <<failure, built, loadResult>>
     ELSE catchAndFallback("Fetching")
  /\ UNCHANGED <<env, rnd, stages>>
  /\ UNCHANGED <<dashboardVars, utilsVars, debounceVars, reloadVars>>

\* loadData resumes after its await with the bytes and runs to its end
\* without suspending again
processBytes ==
  /\ loadPc = "Loaded"
  /\ \E r \in {loadDataFromBytes(env.xlsx, env.sheetFound, env.grid, rnd)} :
       /\ failure' = r.failure
       /\ stages' = stages \o r.stages
       /\ built' = r.built
       /\ loadResult' = r.result
       /\ loadPc' = "resolved"
  /\ UNCHANGED <<env, rnd>>
  /\ UNCHANGED <<dashboardVars, utilsVars, debounceVars, reloadVars>>

\* a direct call of dataProcessor.processRawData(rawData)
callProcessRawData ==
  /\ loadPc = "idle"
  /\ \E g \in DirectGrids \cup SheetGrids :
       \E r \in {processRawData(g, rnd)} :
           /\ env' = LoadEnv("none", "none", "none", FALSE, g)
           /\ built' = r.doctors
           /\ loadPc' = IF r.threw THEN "threw" ELSE "returned"
  /\ stages' = <<"BuildingRecords">>
  /\ UNCHANGED <<rnd, failure, loadResult>>
  /\ UNCHANGED <<dashboardVars, utilsVars, debounceVars, reloadVars>>

NextLoader ==
  \/ loadData
  \/ fetchSettles
  \/ arrayBufferSettles
  \/ processBytes
  \/ callProcessRawData

SpecLoader == InitLoader /\ [][NextLoader]_vars

\* the loader with the one guarantee the event loop gives: a function
\* suspended at an await resumes once the awaited promise has settled
\* (the step of processBytes, told by loadPc alone: it is the one action that
\* leaves "Loaded")
resumes == loadPc = "Loaded" /\ loadPc' = "resolved"

SpecLoaderLive == InitLoader /\ [][NextLoader]_vars /\ WF_loadPc(resumes)

(***************************************************************************)
(* The classifiers of utils, called directly                               *)
(***************************************************************************)
\* the values handed to the classifiers: numbers on and around the
\* thresholds, a numeric string, a string that is no number, undefined, NaN
ClassifierValues ==
  {JSNum(n) : n \in {0, 39000, 39999, 40000, 59000, 59999, 60000, 80000, 80001, 100000}}
    \cup {JSStr(<<"6", "0">>), JSStr(<<"a", "b", "c">>), Undefined, NaN}

\* the segment values handed to parsePriority
ClassifierSegments == {"blindar", "incentivar", "avaliar", "conquistar"}

\* utils before any call, in a page whose dashboard has not started
InitUtils ==
  /\ loadPc = "idle"
  /\ env = NoEnv
  /\ rnd = DashboardRandomStream
  /\ failure = "none"
  /\ stages = <<>>
  /\ built = <<>>
  /\ loadResult = <<>>
  /\ page = [rangeSliders |-> TRUE, excelLoader |-> TRUE]
  /\ setupPc = "start"
  /\ doctors = <<>>
  /\ isLoaded = FALSE
  /\ currentFilters = defaultFilters
  /\ activeButtons = {}
  /\ filteredDoctors = <<>>
  /\ ui = nothingRendered
  /\ applyTimers = 0
  /\ reloadsInFlight = 0
  /\ dataStatus = noStatus
  /\ rendered = FALSE
  /\ utilsCall = NoCall
  /\ now = 0
  /\ searchBox = <<>>
  /\ timeout = Undefined
  /\ pendingTimers = {}
  /\ searchLog = <<>>
  /\ reloadRequests = <<>>

\* a call of utils.parseSegment(volume, affinity)
callParseSegment ==
  /\ utilsCall = NoCall
  /\ \E volume \in ClassifierValues, affinity \in ClassifierValues :
       utilsCall' = [fn |-> "parseSegment", volume |-> volume, affinity |-> affinity,
                     segment |-> "", result |-> parseSegment(volume, affinity)]
  /\ UNCHANGED <<loaderVars, dashboardVars, debounceVars, reloadVars>>

\* a call of utils.parsePriority(volume, affinity, segment)
callParsePriority ==
  /\ utilsCall = NoCall
  /\ \E volume \in ClassifierValues, affinity \in ClassifierValues, segment \in ClassifierSegments :
       utilsCall' = [fn |-> "parsePriority", volume |-> volume, affinity |-> affinity,
                     segment |-> segment, result |-> parsePriority(volume, affinity, segment)]
  /\ UNCHANGED <<loaderVars, dashboardVars, debounceVars, reloadVars>>

\* the greatest number of headers of a header row handed to identifyColumns
MaxHeaders == 3

\* header texts: one per field, one holding keywords of two fields (name and
\* volume), one holding none
HeaderTexts ==
  {<<"N", "o", "m", "e">>,
   <<"E", "s", "p", "e", "c", "i", "a", "l", "i", "d", "a", "d", "e">>,
   <<"V", "o", "l", "u", "m", "e">>,
   <<"A", "f", "i", "n", "i", "d", "a", "d", "e">>,
   <<" ", "M", "E", "D", "I", "C", "O", " ", "-", " ", "C", "o", "n", "s", "u", "l", "t", "a", "s">>,
   <<"C", "o", "d", "i", "g", "o">>}

\* the texts handed to parseSpecialty: absent, empty, white space only, texts
\* holding one keyword, texts holding keywords of several entries, and a text
\* holding none
SpecialtyTexts ==
  {Undefined, JSStr(<<>>), JSStr(<<" ", " ">>),
   JSStr(<<"C", "a", "r", "d", "i", "o", "l", "o", "g", "i", "a">>),
   JSStr(<<" ", "C", "A", "R", "D", "I", "O", " ">>),
   JSStr(<<"N", "e", "u", "r", "o", "l", "o", "g", "i", "a">>),
   JSStr(<<"U", "r", "o", "l", "o", "g", "i", "a">>),
   JSStr(<<"N", "e", "u", "r", "o", "c", "i", "r", "u", "r", "g", "i", "a">>),
   JSStr(<<"C", "i", "r", "u", "r", "g", "i", "a", "o", " ", "c", "a", "r", "d", "i", "o">>),
   JSStr(<<"P", "e", "d", "i", "a", "t", "r", "a">>),
   JSStr(<<"C", "l", "i", "n", "i", "c", "o", " ", "g", "e", "r", "a", "l">>),
   JSStr(<<"A", "c", "u", "p", "u", "n", "t", "u", "r", "a">>)}

\* a call of dataProcessor.identifyColumns(headers)
callIdentifyColumns ==
  /\ utilsCall = NoCall
  /\ \E headers \in SeqsUpTo(HeaderTexts, MaxHeaders) :
       utilsCall' = [fn |-> "identifyColumns", headers |-> headers,
                     result |-> identifyColumns(headers)]
  /\ UNCHANGED <<loaderVars, dashboardVars, debounceVars, reloadVars>>

\* a call of utils.parseSpecialty(text)
callParseSpecialty ==
  /\ utilsCall = NoCall
  /\ \E text \in SpecialtyTexts :
       utilsCall' = [fn |-> "parseSpecialty", text |-> text,
                     result |-> parseSpecialty(text)]
  /\ UNCHANGED <<loaderVars, dashboardVars, debounceVars, reloadVars>>

NextUtils ==
  \/ callParseSegment
  \/ callParsePriority
  \/ callIdentifyColumns
  \/ callParseSpecialty

SpecUtils == InitUtils /\ [][NextUtils]_vars

(***************************************************************************)
(* The dashboard                                                           *)
(***************************************************************************)
\* the dashboard's memory as the record the operators work on
Current ==
  [doctors |-> doctors, isLoaded |-> isLoaded, currentFilters |-> currentFilters,
   activeButtons |-> activeButtons, filtered |-> filteredDoctors, ui |-> ui,
   timers |-> applyTimers,
   rendered |-> rendered]

Becomes(S) ==
  /\ doctors' = S.doctors
  /\ isLoaded' = S.isLoaded
  /\ currentFilters' = S.currentFilters
  /\ activeButtons' = S.activeButtons
  /\ filteredDoctors' = S.filtered
  /\ ui' = S.ui
  /\ applyTimers' = S.timers
  /\ rendered' = S.rendered

\* initModule.setup up to its await of medicalData.loadFromExcel
SetupStart ==
  /\ setupPc = "start"
  /\ setupPc' = "loading"
  /\ dataStatus' = shownStatus("loading", "Carregando dados...", 0)
  /\ UNCHANGED <<page, doctors, isLoaded, currentFilters, activeButtons,
                 filteredDoctors, ui, applyTimers, reloadsInFlight, rendered>>
  /\ UNCHANGED <<loaderVars, utilsVars, debounceVars, reloadVars>>

\* loadFromExcel settles and setup goes on: filtersModule.init binds the
\* events and runs setupRangeSliders
SetupLoadSettles ==
  /\ setupPc = "loading"
  /\ \E e \in DashboardEnvs, volumeValue \in SliderValues, affinityValue \in SliderValues :
       Becomes(setupRangeSliders(
                 loadFromExcel(Current, page.excelLoader, loadDataResult(e, rnd)),
                 page.rangeSliders, volumeValue, affinityValue))
  /\ setupPc' = "ready"
  /\ dataStatus' = statusAfterSetup(isLoaded', doctors')
  /\ UNCHANGED <<page, reloadsInFlight>>
  /\ UNCHANGED <<loaderVars, utilsVars, debounceVars, reloadVars>>

\* the callback of setTimeout(() => filtersModule.applyFilters(), 100)
RefreshTimerFires ==
  /\ applyTimers > 0
  /\ Becomes(applyFilters([Current EXCEPT !.timers = @ - 1]))
  /\ UNCHANGED <<page, setupPc, reloadsInFlight, dataStatus>>
  /\ UNCHANGED <<loaderVars, utilsVars, debounceVars, reloadVars>>

\* the (debounced) input listener of #search-input
SearchInput ==
  /\ setupPc = "ready"
  /\ \E query \in SearchTexts : Becomes(updateSearchFilter(Current, query))
  /\ UNCHANGED <<page, setupPc, reloadsInFlight, dataStatus>>
  /\ UNCHANGED <<loaderVars, utilsVars, debounceVars, reloadVars>>

\* the click listener of #search-clear
SearchClearClick ==
  /\ setupPc = "ready"
  /\ Becomes(clearSearch(Current))
  /\ UNCHANGED <<page, setupPc, reloadsInFlight, dataStatus>>
  /\ UNCHANGED <<loaderVars, utilsVars, debounceVars, reloadVars>>

\* the change listener of a .segment-filter checkbox
SegmentChange ==
  /\ setupPc = "ready"
  /\ \E segment \in SegmentBoxes, isChecked \in BOOLEAN :
       Becomes(updateSegmentFilter(Current, segment, isChecked))
  /\ UNCHANGED <<page, setupPc, reloadsInFlight, dataStatus>>
  /\ UNCHANGED <<loaderVars, utilsVars, debounceVars, reloadVars>>

\* the change listener of #specialty-select
SpecialtyChange ==
  /\ setupPc = "ready"
  /\ \E specialty \in SpecialtyOptions :
       Becomes(updateSpecialtyFilter(Current, specialty))
  /\ UNCHANGED <<page, setupPc, reloadsInFlight, dataStatus>>
  /\ UNCHANGED <<loaderVars, utilsVars, debounceVars, reloadVars>>

\* the input listener of #volume-range
VolumeInput ==
  /\ setupPc = "ready"
  /\ page.rangeSliders
  /\ \E value \in SliderValues : Becomes(updateVolumeRange(Current, value))
  /\ UNCHANGED <<page, setupPc, reloadsInFlight, dataStatus>>
  /\ UNCHANGED <<loaderVars, utilsVars, debounceVars, reloadVars>>

\* the input listener of #affinity-range
AffinityInput ==
  /\ setupPc = "ready"
  /\ page.rangeSliders
  /\ \E value \in SliderValues : Becomes(updateAffinityRange(Current, value))
  /\ UNCHANGED <<page, setupPc, reloadsInFlight, dataStatus>>
  /\ UNCHANGED <<loaderVars, utilsVars, debounceVars, reloadVars>>

\* the click listener of a .quick-filter-btn
QuickFilterClick ==
  /\ setupPc = "ready"
  /\ \E filterType \in QuickFilterTags :
       Becomes(toggleQuickFilter(Current, filterType))
  /\ UNCHANGED <<page, setupPc, reloadsInFlight, dataStatus>>
  /\ UNCHANGED <<loaderVars, utilsVars, debounceVars, reloadVars>>

\* the click listener of #clear-filters
ClearFiltersClick ==
  /\ setupPc = "ready"
  /\ Becomes(clearAllFilters(Current, page.rangeSliders))
  /\ UNCHANGED <<page, setupPc, reloadsInFlight, dataStatus>>
  /\ UNCHANGED <<loaderVars, utilsVars, debounceVars, reloadVars>>

\* the click listener of #reload-data: reloadData up to its await
ReloadClick ==
  /\ setupPc = "ready"
  /\ reloadsInFlight + applyTimers < MaxPending
  /\ reloadsInFlight' = reloadsInFlight + 1
  /\ dataStatus' = shownStatus("loading", "Recarregando dados...", 0)
  /\ UNCHANGED <<page, setupPc, doctors, isLoaded, currentFilters, activeButtons,
                 filteredDoctors, ui, applyTimers, rendered>>
  /\ UNCHANGED <<loaderVars, utilsVars, debounceVars, reloadVars>>

\* loadFromExcel settles and reloadData goes on: clearAllFilters, applyFilters
ReloadSettles ==
  /\ reloadsInFlight > 0
  /\ \E e \in DashboardEnvs :
       Becomes(afterReload(loadFromExcel(Current, page.excelLoader, loadDataResult(e, rnd)),
                           page.rangeSliders))
  /\ reloadsInFlight' = reloadsInFlight - 1
  /\ dataStatus' = statusAfterReload(doctors')
  /\ UNCHANGED <<page, setupPc>>
  /\ UNCHANGED <<loaderVars, utilsVars, debounceVars, reloadVars>>

Next ==
  \/ SetupStart
  \/ SetupLoadSettles
  \/ RefreshTimerFires
  \/ SearchInput
  \/ SearchClearClick
  \/ SegmentChange
  \/ SpecialtyChange
  \/ VolumeInput
  \/ AffinityInput
  \/ QuickFilterClick
  \/ ClearFiltersClick
  \/ ReloadClick
  \/ ReloadSettles

\* the dashboard before initModule.setup has run; each of its loads is one
\* run of ExcelLoader, taken as a whole
Init ==
  /\ loadPc = "idle"
  /\ env = NoEnv
  /\ rnd = DashboardRandomStream
  /\ failure = "none"
  /\ stages = <<>>
  /\ built = <<>>
  /\ loadResult = <<>>
  /\ page \in [rangeSliders : BOOLEAN, excelLoader : BOOLEAN]
  /\ setupPc = "start"
  /\ doctors = <<>>
  /\ isLoaded = FALSE
  /\ currentFilters = defaultFilters
  /\ activeButtons = {}
  /\ filteredDoctors = <<>>
  /\ ui = nothingRendered
  /\ applyTimers = 0
  /\ reloadsInFlight = 0
  /\ dataStatus = noStatus
  /\ rendered = FALSE
  /\ utilsCall = NoCall
  /\ now = 0
  /\ searchBox = <<>>
  /\ timeout = Undefined
  /\ pendingTimers = {}
  /\ searchLog = <<>>
  /\ reloadRequests = <<>>

Spec == Init /\ [][Next]_vars

(***************************************************************************)
(* The search input and its debounced listener, under the clock            *)
(***************************************************************************)
\* input events followed
MaxEvents == 3

\* clicks of #search-clear followed
MaxClears == 1

\* the time up to which the clock is followed, and its step, in milliseconds
MaxTime == 600

TickMs == 100

\* what the user leaves in the search input by typing
TypedTexts == {<<>>, <<"D">>, <<"D", "R", " ">>}

\* the dashboard once initModule.setup has run in a page without ExcelLoader
\* and without range sliders
DebounceStart ==
  setupRangeSliders(
    loadFromExcel([doctors |-> <<>>, isLoaded |-> FALSE, currentFilters |-> defaultFilters,
                   activeButtons |-> {}, filtered |-> <<>>, ui |-> nothingRendered,
                   timers |-> 0, rendered |-> FALSE],
                  FALSE, <<>>),
    FALSE, 0, 0)

\* the entries of searchLog of one kind
LogOf(kind) == {i \in DOMAIN searchLog : searchLog[i].kind = kind}

\* the text of the last input event
lastTyped == searchLog[CHOOSE i \in LogOf("input") : \A j \in LogOf("input") : j <= i].value

\* the listener reading the text the input held when the event was fired
targetValue_atEvent(box, typed) == typed

\* e.target.value as the debounced listener reads it when it runs: e.target
\* is the search input, and its value is what the input holds at that time
targetValue(box, typed) == box

\* no pending timer is due: the callbacks of due timers run first
NoTimerDue == \A t \in pendingTimers : t.due > now

InitDebounce ==
  /\ loadPc = "idle"
  /\ env = NoEnv
  /\ rnd = DashboardRandomStream
  /\ failure = "none"
  /\ stages = <<>>
  /\ built = <<>>
  /\ loadResult = <<>>
  /\ page = [rangeSliders |-> FALSE, excelLoader |-> FALSE]
  /\ setupPc = "ready"
  /\ doctors = DebounceStart.doctors
  /\ isLoaded = DebounceStart.isLoaded
  /\ currentFilters = DebounceStart.currentFilters
  /\ activeButtons = DebounceStart.activeButtons
  /\ filteredDoctors = DebounceStart.filtered
  /\ ui = DebounceStart.ui
  /\ applyTimers = DebounceStart.timers
  /\ reloadsInFlight = 0
  /\ dataStatus = statusAfterSetup(DebounceStart.isLoaded, DebounceStart.doctors)
  /\ rendered = DebounceStart.rendered
  /\ utilsCall = NoCall
  /\ now = 0
  /\ searchBox = <<>>
  /\ timeout = Undefined
  /\ pendingTimers = {}
  /\ searchLog = <<>>
  /\ reloadRequests = <<>>

\* an input event of #search-input: the user has changed the text, and the
\* debounced listener is called with the event
KeyTyped ==
  /\ Cardinality(LogOf("input")) < MaxEvents
  /\ NoTimerDue
  /\ \E value \in TypedTexts \ {searchBox} :
       /\ searchBox' = value
       /\ searchLog' = Append(searchLog, [kind |-> "input", at |-> now, value |-> value])
  /\ \E D \in {executedFunction([timeout |-> timeout, pending |-> pendingTimers],
                                Len(searchLog) + 1, now)} :
       /\ timeout' = D.timeout
       /\ pendingTimers' = D.pending
  /\ UNCHANGED now
  /\ UNCHANGED <<loaderVars, dashboardVars, utilsVars, reloadVars>>

\* a timer of the debounce is due: later runs, and the listener reads
\* e.target.value, the value the search input holds now
LaterFires ==
  /\ \E t \in pendingTimers :
       /\ t.due <= now
       /\ \E D \in {later([timeout |-> timeout, pending |-> pendingTimers], t.id)} :
            /\ timeout' = D.timeout
            /\ pendingTimers' = D.pending
  /\ Becomes(updateSearchFilter(Current, targetValue(searchBox, lastTyped)))
  /\ searchLog' = Append(searchLog, [kind |-> "debounced", at |-> now,
                                     value |-> targetValue(searchBox, lastTyped)])
  /\ UNCHANGED <<now, searchBox>>
  /\ UNCHANGED <<page, setupPc, reloadsInFlight, dataStatus>>
  /\ UNCHANGED <<loaderVars, utilsVars, reloadVars>>

\* a click of #search-clear: clearSearch empties the input, which fires no
\* input event, and calls updateSearchFilter('')
ClearClicked ==
  /\ Cardinality(LogOf("clear") \cup LogOf("clearAll")) < MaxClears
  /\ NoTimerDue
  /\ searchBox' = <<>>
  /\ Becomes(clearSearch(Current))
  /\ searchLog' = Append(searchLog, [kind |-> "clear", at |-> now, value |-> <<>>])
  /\ UNCHANGED <<now, timeout, pendingTimers>>
  /\ UNCHANGED <<page, setupPc, reloadsInFlight, dataStatus>>
  /\ UNCHANGED <<loaderVars, utilsVars, reloadVars>>

\* a click of #clear-filters: clearAllFilters resets the filters, empties the
\* search input, which fires no input event, and applies the filters
ClearFiltersClicked ==
  /\ Cardinality(LogOf("clear") \cup LogOf("clearAll")) < MaxClears
  /\ NoTimerDue
  /\ searchBox' = <<>>
  /\ Becomes(clearAllFilters(Current, page.rangeSliders))
  /\ searchLog' = Append(searchLog, [kind |-> "clearAll", at |-> now, value |-> <<>>])
  /\ UNCHANGED <<now, timeout, pendingTimers>>
  /\ UNCHANGED <<page, setupPc, reloadsInFlight, dataStatus>>
  /\ UNCHANGED <<loaderVars, utilsVars, reloadVars>>

\* the clock advances, to the next timer due at the latest
TimePasses ==
  /\ now < MaxTime
  /\ NoTimerDue
  /\ \E next \in {now + TickMs} \cup {t.due : t \in pendingTimers} :
       /\ \A other \in {now + TickMs} \cup {t.due : t \in pendingTimers} : next <= other
       /\ now' = next
  /\ UNCHANGED <<searchBox, timeout, pendingTimers, searchLog>>
  /\ UNCHANGED <<loaderVars, dashboardVars, utilsVars, reloadVars>>

NextDebounce ==
  \/ KeyTyped
  \/ LaterFires
  \/ ClearClicked
  \/ ClearFiltersClicked
  \/ TimePasses

SpecDebounce == InitDebounce /\ [][NextDebounce]_vars

(***************************************************************************)
(* Reloads that overlap                                                    *)
(***************************************************************************)
\* reloadData calls followed
MaxReloads == 3

\* the dashboard once initModule.setup has run in a page with ExcelLoader and
\* range sliders, the first load having resolved with the good sheet
ReloadStart ==
  setupRangeSliders(
    loadFromExcel([doctors |-> <<>>, isLoaded |-> FALSE, currentFilters |-> defaultFilters,
                   activeButtons |-> {}, filtered |-> <<>>, ui |-> nothingRendered,
                   timers |-> 0, rendered |-> FALSE],
                  TRUE, loadDataResult(LoadEnv("ok", "ok", "ok", TRUE, DashboardGrid),
                                       DashboardRandomStream)),
    TRUE, SliderResetValue, SliderResetValue)

\* the reloads that have completed
Completed == {i \in DOMAIN reloadRequests : reloadRequests[i].order > 0}

InitReload ==
  /\ loadPc = "idle"
  /\ env = NoEnv
  /\ rnd = DashboardRandomStream
  /\ failure = "none"
  /\ stages = <<>>
  /\ built = <<>>
  /\ loadResult = <<>>
  /\ page = [rangeSliders |-> TRUE, excelLoader |-> TRUE]
  /\ setupPc = "ready"
  /\ doctors = ReloadStart.doctors
  /\ isLoaded = ReloadStart.isLoaded
  /\ currentFilters = ReloadStart.currentFilters
  /\ activeButtons = ReloadStart.activeButtons
  /\ filteredDoctors = ReloadStart.filtered
  /\ ui = ReloadStart.ui
  /\ applyTimers = ReloadStart.timers
  /\ reloadsInFlight = 0
  /\ dataStatus = statusAfterSetup(ReloadStart.isLoaded, ReloadStart.doctors)
  /\ rendered = ReloadStart.rendered
  /\ utilsCall = NoCall
  /\ now = 0
  /\ searchBox = <<>>
  /\ timeout = Undefined
  /\ pendingTimers = {}
  /\ searchLog = <<>>
  /\ reloadRequests = <<>>

\* a click of #reload-data: reloadData runs up to its await; nothing keeps
\* it from running while an earlier reload still awaits its load.  The file
\* may have changed since the last request, so each load has its own result
ReloadRequested ==
  /\ Len(reloadRequests) < MaxReloads
  /\ \E loaded \in DashboardLoads :
       reloadRequests' = Append(reloadRequests, [load |-> loaded, order |-> 0])
  /\ reloadsInFlight' = reloadsInFlight + 1
  /\ dataStatus' = shownStatus("loading", "Recarregando dados...", 0)
  /\ UNCHANGED <<page, setupPc, doctors, isLoaded, currentFilters, activeButtons,
                 filteredDoctors, ui, applyTimers, rendered>>
  /\ UNCHANGED <<loaderVars, utilsVars, debounceVars>>

\* the load of one of the reloads in flight settles, in whatever order the
\* network answers, and that reloadData goes on to its end
ReloadCompletes ==
  /\ \E i \in DOMAIN reloadRequests \ Completed :
       /\ Becomes(afterReload(loadFromExcel(Current, page.excelLoader, reloadRequests[i].load),
                              page.rangeSliders))
       /\ reloadRequests' = [reloadRequests EXCEPT ![i].order = Cardinality(Completed) + 1]
  /\ reloadsInFlight' = reloadsInFlight - 1
  /\ dataStatus' = statusAfterReload(doctors')
  /\ UNCHANGED <<page, setupPc>>
  /\ UNCHANGED <<loaderVars, utilsVars, debounceVars>>

NextReload ==
  \/ ReloadRequested
  \/ ReloadCompletes

SpecReload == InitReload /\ [][NextReload]_vars

(***************************************************************************)
(* Properties of the ingestion pipeline, checked under SpecLoader          *)
(***************************************************************************)
\* processRawData has returned an array: by a direct call, or inside a
\* loadData run that got as far as returning it
Built ==
  \/ loadPc = "returned"
  \/ loadPc = "resolved" /\ failure = "none"

\* C1: processRawData applied to the grid of scenario A produces exactly one
\* Doctor: name "Dr. Teste", specialty cardiologia, volume 85, affinity 90,
\* segment blindar, priority strategic.
C1_ScenarioA ==
  (Built /\ env.grid = ScenarioAGrid) =>
     /\ Len(built) = 1
     /\ built[1].name = <<"D", "r", ".", " ", "T", "e", "s", "t", "e">>
     /\ built[1].specialty = "cardiologia"
     /\ built[1].volume = 85
     /\ built[1].affinity = 90
     /\ built[1].segment = "blindar"
     /\ built[1].priority = "strategic"

\* C2: for every Doctor processRow emits, the stored segment is the segment
\* parseSegment derives from the stored (rounded) volume and affinity.
C2_SegmentRoundTrip ==
  Built =>
    \A i \in DOMAIN built :
      built[i].segment = parseSegment(Int2Num(built[i].volume), Int2Num(built[i].affinity))

\* a pipeline-level failure, read off the world the run meets: fetch rejects
\* or answers a non-ok status, the body cannot be read, the workbook cannot be
\* parsed, the target sheet is absent, or the grid has fewer than 2 rows
PipelineFails(e) ==
  \/ e.fetch # "ok"
  \/ e.body # "ok"
  \/ e.xlsx # "ok"
  \/ ~e.sheetFound
  \/ Len(e.grid.rows) < 2

\* C3: loadData never rejects, and on a pipeline-level failure it resolves
\* with the complete 3-entry fallback dataset.
C3_FallbackOnFailure ==
  /\ loadPc # "rejected"
  /\ (loadPc = "resolved" /\ PipelineFails(env)) =>
        /\ loadResult = loaderFallbackData
        /\ Len(loadResult) = 3

\* a run on a workbook that holds a header row only has resolved with the fallback
C3_Witness ==
  /\ loadPc = "resolved"
  /\ env.fetch = "ok" /\ env.body = "ok" /\ env.xlsx = "ok" /\ env.sheetFound
  /\ Len(env.grid.rows) = 1
  /\ loadResult = loaderFallbackData

\* C4: the array loadData resolves with holds at least one Doctor.
C4_NonEmptyResult ==
  loadPc = "resolved" => Len(loadResult) >= 1

\* the name cell of a data row, under the name column of the grid's headers
NameCell(g, row) == cellAt(row, identifyColumns(g.rows[1].cells).name)

\* a data row that yields no Doctor: its processing throws (a null row), the
\* row is rejected for want of a name column, or its name cell is blank
BadRow(g, row) ==
  \/ row.null
  \/ nameColumnMissing(identifyColumns(g.rows[1].cells))
  \/ NameCell(g, row).t # "str"
  \/ trim(NameCell(g, row).s) = <<>>

\* the sheet row numbers (2, 3, ...) of the rows of g that are not bad, in order
KeptRowNumbers(g) ==
  SelectSeq([n \in 1..(Len(g.rows) - 1) |-> n + 1], LAMBDA n : ~BadRow(g, g.rows[n]))

\* C5: a rejected row and a row whose processing throws contribute no Doctor
\* and do not abort the batch: processRawData throws only for a grid of fewer
\* than 2 rows, and the list it returns holds, in order, one Doctor for each of
\* the remaining rows, carrying that row's number and trimmed name.
C5_PartialFailure ==
  /\ loadPc = "threw" => (env.grid.null \/ Len(env.grid.rows) < 2)
  /\ Built =>
       /\ [i \in DOMAIN built |-> built[i].id] = KeptRowNumbers(env.grid)
       /\ \A i \in DOMAIN built :
            built[i].name = trim(NameCell(env.grid, env.grid.rows[built[i].id]).s)

\* a batch with a throwing row first and a good row after it returned the good row
C5_Witness ==
  /\ loadPc = "returned"
  /\ Len(env.grid.rows) = 3
  /\ env.grid.rows[2].null
  /\ Len(built) = 1
  /\ built[1].id = 3

\* C6: every Doctor of the collection the pipeline produces, built or
\* fallback, has a name that is non-empty after trimming, and no row with an
\* empty or whitespace-only name cell is in the collection.
C6_NamesNonEmpty ==
  /\ loadPc = "resolved" => \A i \in DOMAIN loadResult : trim(loadResult[i].name) # <<>>
  /\ Built =>
       \A i \in DOMAIN built :
         /\ trim(built[i].name) # <<>>
         /\ trim(NameCell(env.grid, env.grid.rows[built[i].id]).s) # <<>>

\* a run resolved with a built Doctor from a sheet that also holds a row
\* whose name cell is white space only
C6_Witness ==
  /\ loadPc = "resolved" /\ failure = "none"
  /\ Len(env.grid.rows) = 3
  /\ NameCell(env.grid, env.grid.rows[2]) = JSStr(<<" ", " ", " ">>)
  /\ Len(loadResult) = 1

(***************************************************************************)
(* Properties of the filter engine, checked under Spec                     *)
(***************************************************************************)
\* the criteria other than the quick filters, as one conjunction
PassesCriteria(d, f) ==
  /\ f.search = <<>> \/ includes(toLowerCase(d.name), toLowerCase(f.search))
  /\ f.segments = <<>> \/ arrayIncludes(f.segments, d.segment)
  /\ f.specialty = "" \/ d.specialty = f.specialty
  /\ d.volume >= f.volume.min
  /\ d.affinity >= f.affinity.min

\* the positions of the blindar doctors of the collection
BlindarPositions == {i \in DOMAIN doctors : doctors[i].segment = "blindar"}

\* only the blindar checkbox is ticked and every other filter is at its default
OnlyBlindarSelected == currentFilters = [defaultFilters EXCEPT !.segments = <<"blindar">>]

\* C7: with no quick filter active, the list applyFilters shows is exactly the
\* doctors of the full collection, in its order, that satisfy the conjunction
\* of the search, segment, specialty, volume and affinity criteria, an empty
\* search, segment selection or specialty being no restriction; with only
\* blindar selected and a collection holding one blindar doctor, the list is
\* exactly that doctor.
C7_ConjunctionOfCriteria ==
  (rendered /\ currentFilters.quickFilters = <<>>) =>
     /\ filteredDoctors = SelectSeq(doctors, LAMBDA d : PassesCriteria(d, currentFilters))
     /\ (OnlyBlindarSelected /\ Cardinality(BlindarPositions) = 1) =>
           \E i \in BlindarPositions : filteredDoctors = <<doctors[i]>>

\* applyFilters has shown the one blindar doctor of the sheet's four, only
\* blindar being selected
C7_Witness ==
  /\ rendered
  /\ OnlyBlindarSelected
  /\ Len(doctors) = 4
  /\ Cardinality(BlindarPositions) = 1
  /\ Len(filteredDoctors) = 1
  /\ filteredDoctors[1].segment = "blindar"

\* C8: with quick filters active, the list applyFilters shows is exactly the
\* doctors that pass the other criteria and whose priority is one of the
\* active tags; with new-opportunities active, every doctor of priority
\* new-opportunities that passes the other criteria is shown.
C8_QuickFilterMatch ==
  (rendered /\ currentFilters.quickFilters # <<>>) =>
     filteredDoctors =
       SelectSeq(doctors, LAMBDA d :
         /\ PassesCriteria(d, currentFilters)
         /\ \E i \in DOMAIN currentFilters.quickFilters :
              priorityText[d.priority] = currentFilters.quickFilters[i])

\* C9: a click on "clear filters", the range sliders being in the page, leaves
\* the filter state at its defaults (volume.min and affinity.min 0 among
\* them) and the list shown equal to the whole collection.
C9_ClearRestoresDefaults ==
  [][(ClearFiltersClick /\ page.rangeSliders) =>
        /\ currentFilters' = defaultFilters
        /\ filteredDoctors' = doctors']_vars

\* a step of a listener or of the scheduled refresh: each of them but the
\* click on "reload" runs applyFilters, and none of them loads data
ListenerStep == setupPc = "ready" /\ reloadsInFlight' >= reloadsInFlight

\* C10: applyFilters changes neither medicalData.doctors (contents and
\* order) nor the filter state: no listener's step changes the collection,
\* and a run of applyFilters on its own (the scheduled refresh) leaves the
\* filter state as it is; when applyFilters has already run on this
\* collection and filter state, the list and the aggregates the second run
\* shows are those of the first.
C10_PureProjection ==
  [][/\ ListenerStep => doctors' = doctors
     /\ RefreshTimerFires =>
          /\ currentFilters' = currentFilters
          /\ rendered =>
               /\ filteredDoctors' = filteredDoctors
               /\ updateUI(filteredDoctors', doctors') = updateUI(filteredDoctors, doctors)]_vars

\* the sheet's doctors are loaded, which scheduled a refresh, and no refresh
\* is pending: the refresh has run, on a page whose sliders made setup run
\* applyFilters before it; the list shown is a proper, non-empty part of the
\* collection
C10_Witness ==
  /\ setupPc = "ready"
  /\ page.rangeSliders
  /\ Len(doctors) = 4
  /\ applyTimers = 0
  /\ reloadsInFlight = 0
  /\ rendered
  /\ Len(filteredDoctors) \in 1..3

\* the doctors of a list, as a set
Shown(list) == {list[i] : i \in DOMAIN list}

\* a step that raises volume.min or affinity.min, or leaves them, and changes
\* nothing else of the filter state nor the collection, applyFilters having
\* run before it and in it
MinsRaised ==
  /\ rendered /\ rendered'
  /\ doctors' = doctors
  /\ currentFilters'.volume.min >= currentFilters.volume.min
  /\ currentFilters'.affinity.min >= currentFilters.affinity.min
  /\ currentFilters' = [currentFilters EXCEPT !.volume.min = currentFilters'.volume.min,
                                              !.affinity.min = currentFilters'.affinity.min]

\* C11: raising volume.min or affinity.min, all else unchanged, yields a
\* filtered list whose doctors are among those of the previous list, hence
\* never a larger count.
C11_Monotonicity ==
  [][MinsRaised =>
       /\ Shown(filteredDoctors') \subseteq Shown(filteredDoctors)
       /\ Len(filteredDoctors') <= Len(filteredDoctors)]_vars

\* volume.min has been raised to 50 on the sheet's four doctors, everything
\* else at its default: the one doctor below 50 has left the list
C11_Witness ==
  /\ rendered
  /\ Len(doctors) = 4
  /\ currentFilters = [defaultFilters EXCEPT !.volume.min = 50]
  /\ Len(filteredDoctors) = 3

\* the four fixed buckets of updateUI
Buckets == {"blindar", "incentivar", "avaliar", "conquistar"}

\* the positions of the shown doctors whose priority is high or new-opportunities
OpportunityPositions ==
  {i \in DOMAIN filteredDoctors : filteredDoctors[i].priority \in {"high", "new-opportunities"}}

\* C12: on every apply the survivors are grouped into the four fixed buckets,
\* all present, each holding exactly the survivors of its segment; the KPI
\* total is the survivor count; the percentage is survivors / collection size
\* * 100 to one decimal place, and 0 when there is no survivor; the
\* opportunities KPI is the number of survivors of priority high or
\* new-opportunities.
C12_Aggregates ==
  rendered =>
    /\ Buckets \subseteq DOMAIN ui
    /\ \A s \in Buckets : ui[s] = SelectSeq(filteredDoctors, LAMBDA d : d.segment = s)
    /\ ui.kpis.totalMedicos = Len(filteredDoctors)
    /\ Len(filteredDoctors) = 0 => ui.kpis.percentage = 0
    /\ Len(filteredDoctors) > 0 =>
         /\ Len(doctors) > 0
         /\ 2 * (ui.kpis.percentage * Len(doctors) - 1000 * Len(filteredDoctors)) <= Len(doctors)
         /\ 2 * (1000 * Len(filteredDoctors) - ui.kpis.percentage * Len(doctors)) <= Len(doctors)
    /\ ui.kpis.oportunidades = Cardinality(OpportunityPositions)

\* the five blindar doctors of the twelve are shown: 41.7 % of the base, four of
\* them opportunities, the other three buckets empty
C12_Witness ==
  /\ rendered
  /\ Len(doctors) = 12
  /\ Len(ui.blindar) = 5
  /\ ui.incentivar = <<>> /\ ui.avaliar = <<>> /\ ui.conquistar = <<>>
  /\ ui.kpis.totalMedicos = 5
  /\ ui.kpis.percentage = 417
  /\ ui.kpis.oportunidades = 4

(***************************************************************************)
(* Numeric cells of the ingestion pipeline, checked under SpecLoader       *)
(***************************************************************************)
\* the volume and affinity cells of a data row, under the grid's headers
VolumeCell(g, row) == cellAt(row, identifyColumns(g.rows[1].cells).volume)
AffinityCell(g, row) == cellAt(row, identifyColumns(g.rows[1].cells).affinity)

\* the cell is present and parses as a number, 0 included
ParsesAsNumber(cell) == cell.t = "str" /\ parseFloat(cell).t = "num"

\* C13: whenever the volume (resp. affinity) cell of a row is present and
\* parses as a number, the value 0 included, the stored volume (resp.
\* affinity) is that number rounded to the nearest integer, so the random
\* value is substituted only for an absent or unparsable cell.
C13_ParsedCellsKept ==
  Built =>
    \A i \in DOMAIN built :
      /\ ParsesAsNumber(VolumeCell(env.grid, env.grid.rows[built[i].id])) =>
           built[i].volume = MathRound(parseFloat(VolumeCell(env.grid, env.grid.rows[built[i].id])))
      /\ ParsesAsNumber(AffinityCell(env.grid, env.grid.rows[built[i].id])) =>
           built[i].affinity = MathRound(parseFloat(AffinityCell(env.grid, env.grid.rows[built[i].id])))

\* the cell holds a well-formed number in [0, 100]
WellFormedPercentage(cell) ==
  /\ ParsesAsNumber(cell)
  /\ parseFloat(cell).n >= 0
  /\ parseFloat(cell).n <= 100000

\* processRow substitutes a random value for the cell: the cell is absent or
\* empty, or what parseFloat makes of it is NaN or 0
UsesRandom(cell) == ~Truthy(cell) \/ ~Truthy(parseFloat(cell))

\* C14 as stated: the stored volume and affinity of every Doctor processRow
\* builds lie in [0, 100] when the source cell was a well-formed percentage,
\* and in [0, 100) when the random value was substituted.
C14_RandomBelowHundred ==
  Built =>
    \A i \in DOMAIN built :
      /\ WellFormedPercentage(VolumeCell(env.grid, env.grid.rows[built[i].id])) =>
           built[i].volume \in 0..100
      /\ WellFormedPercentage(AffinityCell(env.grid, env.grid.rows[built[i].id])) =>
           built[i].affinity \in 0..100
      /\ UsesRandom(VolumeCell(env.grid, env.grid.rows[built[i].id])) =>
           built[i].volume \in 0..99
      /\ UsesRandom(AffinityCell(env.grid, env.grid.rows[built[i].id])) =>
           built[i].affinity \in 0..99

\* C14, amended: the stored volume and affinity of every Doctor processRow
\* builds lie in [0, 100], both when the source cell was a well-formed
\* percentage and when the random value, itself in [0, 100), was substituted
\* and rounded.
C14_StoredWithinHundred ==
  /\ \A k \in DOMAIN rnd : rnd[k] >= 0 /\ rnd[k] < 100000
  /\ Built =>
       \A i \in DOMAIN built :
         /\ (\/ WellFormedPercentage(VolumeCell(env.grid, env.grid.rows[built[i].id]))
             \/ UsesRandom(VolumeCell(env.grid, env.grid.rows[built[i].id]))) =>
              built[i].volume \in 0..100
         /\ (\/ WellFormedPercentage(AffinityCell(env.grid, env.grid.rows[built[i].id]))
             \/ UsesRandom(AffinityCell(env.grid, env.grid.rows[built[i].id]))) =>
              built[i].affinity \in 0..100

\* a Doctor was built whose affinity cell does not parse: the random value
\* 99.6 was substituted and stored as 100
C14_Witness ==
  /\ Built
  /\ \E i \in DOMAIN built :
       /\ UsesRandom(AffinityCell(env.grid, env.grid.rows[built[i].id]))
       /\ built[i].affinity = 100

(***************************************************************************)
(* Properties of the classifiers, checked under SpecUtils                  *)
(***************************************************************************)
\* parseSegment was called with two numbers
SegmentOfNumbers ==
  /\ utilsCall.fn = "parseSegment"
  /\ utilsCall.volume.t = "num" /\ utilsCall.affinity.t = "num"

\* C15: parseSegment returns one of the four segments for every pair of
\* arguments, and for numbers 60 is an inclusive lower bound on each axis:
\* blindar iff volume >= 60 and affinity >= 60, incentivar iff volume < 60 and
\* affinity >= 60, avaliar iff volume >= 60 and affinity < 60, conquistar
\* otherwise; (60, 60) is blindar and (59, 60) is incentivar.
C15_SegmentQuadrants ==
  /\ utilsCall.fn = "parseSegment" =>
       utilsCall.result \in {"blindar", "incentivar", "avaliar", "conquistar"}
  /\ SegmentOfNumbers =>
       /\ utilsCall.result = "blindar" <=>
            (utilsCall.volume.n >= 60000 /\ utilsCall.affinity.n >= 60000)
       /\ utilsCall.result = "incentivar" <=>
            (utilsCall.volume.n < 60000 /\ utilsCall.affinity.n >= 60000)
       /\ utilsCall.result = "avaliar" <=>
            (utilsCall.volume.n >= 60000 /\ utilsCall.affinity.n < 60000)
       /\ utilsCall.result = "conquistar" <=>
            (utilsCall.volume.n < 60000 /\ utilsCall.affinity.n < 60000)
       /\ (utilsCall.volume = Int2Num(59) /\ utilsCall.affinity = Int2Num(60)) =>
            utilsCall.result = "incentivar"

\* parseSegment(60, 60) has returned blindar
C15_Witness ==
  /\ utilsCall.fn = "parseSegment"
  /\ utilsCall.volume = Int2Num(60)
  /\ utilsCall.affinity = Int2Num(60)
  /\ utilsCall.result = "blindar"

\* parsePriority was called with two numbers
PriorityOfNumbers ==
  /\ utilsCall.fn = "parsePriority"
  /\ utilsCall.volume.t = "num" /\ utilsCall.affinity.t = "num"

\* one of the two values is above 80
AboveHigh == utilsCall.volume.n > 80000 \/ utilsCall.affinity.n > 80000

\* both values are below 40
BelowLow == utilsCall.volume.n < 40000 /\ utilsCall.affinity.n < 40000

\* C16: parsePriority returns one of the three priority keys, by the first
\* rule that matches: strategic for segment blindar, whatever the values;
\* else high if volume > 80 or affinity > 80 (80 itself is not high); else
\* new-opportunities if volume < 40 and affinity < 40 (40 itself is not);
\* else strategic.
C16_PriorityRuleOrder ==
  /\ utilsCall.fn = "parsePriority" =>
       utilsCall.result \in {"strategic", "high", "new-opportunities"}
  /\ PriorityOfNumbers =>
       /\ utilsCall.segment = "blindar" => utilsCall.result = "strategic"
       /\ (utilsCall.segment # "blindar" /\ AboveHigh) => utilsCall.result = "high"
       /\ (utilsCall.segment # "blindar" /\ ~AboveHigh /\ BelowLow) =>
            utilsCall.result = "new-opportunities"
       /\ (utilsCall.segment # "blindar" /\ ~AboveHigh /\ ~BelowLow) =>
            utilsCall.result = "strategic"

\* parsePriority(100, 80.001, 'blindar') has returned strategic
C16_Witness ==
  /\ utilsCall.fn = "parsePriority"
  /\ utilsCall.segment = "blindar"
  /\ utilsCall.volume = Int2Num(100)
  /\ utilsCall.affinity = JSNum(80001)
  /\ utilsCall.result = "strategic"

(***************************************************************************)
(* Properties of the collection in use, checked under Spec                 *)
(***************************************************************************)
\* C17: every Doctor of the collection in use, built from the spreadsheet or
\* taken from a fallback dataset, has the priority the classifier rules give
\* its volume, affinity and segment; in particular every blindar Doctor has
\* priority strategic.
C17_PriorityDerived ==
  \A i \in DOMAIN doctors :
    /\ doctors[i].priority =
         parsePriority(Int2Num(doctors[i].volume), Int2Num(doctors[i].affinity),
                       doctors[i].segment)
    /\ doctors[i].segment = "blindar" => doctors[i].priority = "strategic"

\* no load is under way and the collection in use is a fallback dataset
FallbackInUse ==
  /\ setupPc = "ready"
  /\ reloadsInFlight = 0
  /\ doctors \in {dashboardFallbackData, loaderFallbackData}

\* C18: whenever an initial load or a reload has ended with a fallback
\* dataset in use, the data status shown is the failure notice, never the
\* success status that reports N doctors loaded.
C18_FallbackShowsFailure ==
  FallbackInUse => (dataStatus.status = "error" /\ dataStatus.status # "success")

\* the collections one run of medicalData.loadFromExcel can end with: what
\* ExcelLoader.loadData resolved with, when that is not empty, or the
\* dashboard's own fallback dataset
WholeCollections ==
  {dashboardFallbackData} \cup
    {ds \in {loadDataResult(e, DashboardRandomStream) : e \in DashboardEnvs} : Len(ds) > 0}

\* C19: a reload wholly replaces the collection: when reloadData completes,
\* medicalData.doctors is the collection of that run, whatever the previous
\* one was, with nothing of it retained or merged: every step that changes
\* the collection leaves one whole collection of a single run in place, never
\* a partly built or a merged one, and no step of a listener changes it.
C19_ReloadReplaces ==
  [][/\ doctors' # doctors => doctors' \in WholeCollections
     /\ ListenerStep => doctors' = doctors]_vars

\* a reload is awaiting its load, and the twelve doctors loaded before it are
\* still in place and shown
C19_Witness ==
  /\ reloadsInFlight = 1
  /\ dataStatus.status = "loading"
  /\ doctors = dashboardFallbackData
  /\ rendered
  /\ Len(filteredDoctors) = 12

(***************************************************************************)
(* Properties of the search debounce, checked under SpecDebounce           *)
(***************************************************************************)
\* input event i ends a burst: no later input event arrives less than
\* DebounceWait after it
EndsBurst(i) ==
  \A j \in LogOf("input") : j > i => searchLog[j].at - searchLog[i].at >= DebounceWait

\* the runs of the debounced listener between input event i and the next one
RunsFor(i) ==
  {k \in LogOf("debounced") : k > i /\ \A j \in LogOf("input") : j > i => k < j}

\* the time for the run after input event i has passed
Over(i) ==
  \/ searchLog[i].at + DebounceWait < now
  \/ \E j \in LogOf("input") : j > i

\* the search input was emptied by a click of #search-clear or of
\* #clear-filters between entries i and k of the log
ClearedBetween(i, k) == \E c \in LogOf("clear") \cup LogOf("clearAll") : i < c /\ c < k

\* the debounced listener runs only after a burst has ended, DebounceWait
\* after the burst's last event, and once
OncePerBurst ==
  /\ \A k \in LogOf("debounced") : \E i \in LogOf("input") : i < k
  /\ \A i \in LogOf("input") :
       /\ ~EndsBurst(i) => RunsFor(i) = {}
       /\ EndsBurst(i) => \A k \in RunsFor(i) : searchLog[k].at = searchLog[i].at + DebounceWait
       /\ EndsBurst(i) /\ Over(i) => Cardinality(RunsFor(i)) = 1

\* C20 as stated: for a burst of input events each less than 300 ms after
\* the previous one, updateSearchFilter is invoked by the debounced listener
\* exactly once, 300 ms after the last event, with the value of the last
\* event, and not for the intermediate keystrokes.
C20_LastEventValue ==
  /\ OncePerBurst
  /\ \A i \in LogOf("input") : \A k \in RunsFor(i) :
       searchLog[k].value = searchLog[i].value

\* C20, amended: one invocation per burst, 300 ms after its last event and
\* none for the intermediate keystrokes, with the value the search input
\* holds at that moment: the value of the last event, or the empty string
\* when clearSearch or clearAllFilters emptied the input after the last event.
C20_OncePerBurst ==
  /\ OncePerBurst
  /\ \A i \in LogOf("input") : \A k \in RunsFor(i) :
       searchLog[k].value =
         IF ClearedBetween(i, k) THEN <<>> ELSE searchLog[i].value

\* two keystrokes less than 300 ms apart, then the one run of the listener,
\* with the text of the second keystroke, which filters the list
C20_Witness ==
  \E i, j, k \in DOMAIN searchLog :
    /\ i < j /\ j < k
    /\ searchLog[i].kind = "input" /\ searchLog[j].kind = "input"
    /\ searchLog[k].kind = "debounced"
    /\ searchLog[i].at < searchLog[j].at
    /\ searchLog[j].at - searchLog[i].at < DebounceWait
    /\ searchLog[i].value # searchLog[j].value
    /\ searchLog[k].value = searchLog[j].value
    /\ searchLog[k].value # <<>>
    /\ LogOf("debounced") = {k}
    /\ LogOf("clear") \cup LogOf("clearAll") = {}
    /\ currentFilters.search = trim(searchLog[j].value)
    /\ rendered

(***************************************************************************)
(* Properties of the row processor, checked under SpecLoader               *)
(***************************************************************************)
\* the name cell of a row is missing, empty or white space only
NameBlank(g, row) ==
  \/ NameCell(g, row).t # "str"
  \/ trim(NameCell(g, row).s) = <<>>

\* the row of sheet row number n has no Doctor in the built array
Rejected(n) == \A i \in DOMAIN built : built[i].id # n

\* C21: processRow rejects a row if and only if no header matched a name
\* keyword at all, or the row's name cell is empty or white space only; a name
\* column resolved at any index, the first column (index 0) included, is
\* accepted.
C21_RejectedIffNoName ==
  Built =>
    \A n \in 2..Len(env.grid.rows) :
      ~env.grid.rows[n].null =>
        (Rejected(n) <=>
           \/ identifyColumns(env.grid.rows[1].cells).name = NoColumn
           \/ NameBlank(env.grid, env.grid.rows[n]))

(***************************************************************************)
(* Properties of identifyColumns and parseSpecialty, checked under         *)
(* SpecUtils                                                               *)
(***************************************************************************)
\* the 0-based indices of the headers that contain one of the keywords
MatchingIndices(headers, keywords) ==
  {i \in 0..(Len(headers) - 1) :
     \E k \in keywords : includes(toLowerCase(trim(headers[i + 1])), k)}

\* the index of the last header that contains one of the keywords
LastMatch(headers, keywords) ==
  IF MatchingIndices(headers, keywords) = {} THEN NoColumn
  ELSE CHOOSE i \in MatchingIndices(headers, keywords) :
         \A j \in MatchingIndices(headers, keywords) : j <= i

\* C22: identifyColumns returns a column map, never an error, in which each
\* of the four fields, independently of the others, holds the index of the
\* last header containing one of the field's keywords, and is unresolved if
\* there is none; a header containing keywords of several fields is assigned
\* to all of them.
C22_LastHeaderWins ==
  utilsCall.fn = "identifyColumns" =>
    /\ DOMAIN utilsCall.result = {"name", "specialty", "volume", "affinity"}
    /\ utilsCall.result.name = LastMatch(utilsCall.headers, nameKeywords)
    /\ utilsCall.result.specialty = LastMatch(utilsCall.headers, specialtyKeywords)
    /\ utilsCall.result.volume = LastMatch(utilsCall.headers, volumeKeywords)
    /\ utilsCall.result.affinity = LastMatch(utilsCall.headers, affinityKeywords)

\* identifyColumns of Nome, Volume, " MEDICO - Consultas": the third header
\* has taken both the name and the volume field from the first two
C22_Witness ==
  /\ utilsCall.fn = "identifyColumns"
  /\ Len(utilsCall.headers) = 3
  /\ utilsCall.headers[1] = <<"N", "o", "m", "e">>
  /\ utilsCall.headers[2] = <<"V", "o", "l", "u", "m", "e">>
  /\ utilsCall.result.name = 2
  /\ utilsCall.result.volume = 2
  /\ utilsCall.result.specialty = NoColumn

\* the closed taxonomy: the canonical keys of the table, and outras
Taxonomy == {specialtyMap[i].value : i \in DOMAIN specialtyMap} \cup {"outras"}

\* the table entries whose keyword is a substring of the lowercased trimmed text
EntriesIn(text) ==
  IF text.t # "str" THEN {}
  ELSE {i \in DOMAIN specialtyMap : includes(toLowerCase(trim(text.s)), specialtyMap[i].key)}

\* C24: parseSpecialty always returns a key of the closed taxonomy, never
\* null or the raw text: the canonical key of the first table entry, in
\* declaration order, whose keyword is a substring of the lowercased trimmed
\* input, and outras when no keyword matches or the input is empty or absent.
C24_FirstKeywordWins ==
  utilsCall.fn = "parseSpecialty" =>
    /\ utilsCall.result \in Taxonomy
    /\ EntriesIn(utilsCall.text) = {} => utilsCall.result = "outras"
    /\ \A i \in EntriesIn(utilsCall.text) :
         (\A j \in EntriesIn(utilsCall.text) : i <= j) =>
           utilsCall.result = specialtyMap[i].value

\* parseSpecialty('Cirurgiao cardio') has returned cardiologia, the entry
\* declared first, though the keyword cirurgia comes first in the text
C24_Witness ==
  /\ utilsCall.fn = "parseSpecialty"
  /\ utilsCall.text = JSStr(<<"C", "i", "r", "u", "r", "g", "i", "a", "o", " ", "c", "a", "r", "d", "i", "o">>)
  /\ Cardinality(EntriesIn(utilsCall.text)) > 1
  /\ utilsCall.result = "cardiologia"

(***************************************************************************)
(* Properties of the built collection, checked under SpecLoader            *)
(***************************************************************************)
\* the data rows of the grid in hand (rawData.slice(1)), 0-based index i being
\* DataRows[i + 1]
DataRows == Tail(env.grid.rows)

\* C23: every Doctor built by processRawData has id = originalRow = the
\* zero-based index of its data row + 2, so the ids of one built collection
\* are pairwise distinct and strictly increasing in collection order; the
\* collection a run resolves with carries the ids of the rows of that run's
\* sheet.
C23_IdsAreRowNumbers ==
  /\ Built =>
       /\ \A i \in DOMAIN built :
            /\ built[i].id = built[i].originalRow
            /\ \E index \in 0..(Len(DataRows) - 1) :
                 /\ built[i].id = index + 2
                 /\ ~DataRows[index + 1].null
                 /\ built[i].name = trim(NameCell(env.grid, DataRows[index + 1]).s)
       /\ \A i, j \in DOMAIN built : i < j => built[i].id < built[j].id
  /\ (loadPc = "resolved" /\ failure = "none") => loadResult = built

\* a run resolved with two Doctors, of sheet rows 2 and 3
C23_Witness ==
  /\ loadPc = "resolved" /\ failure = "none"
  /\ Len(loadResult) = 2
  /\ loadResult[1].id = 2 /\ loadResult[1].originalRow = 2
  /\ loadResult[2].id = 3 /\ loadResult[2].originalRow = 3
  /\ loadResult[1].name # loadResult[2].name

(***************************************************************************)
(* Properties of one loadData run, checked under SpecLoaderLive            *)
(***************************************************************************)
\* the stages of a loadData run, in order
StageOrder == <<"Fetching", "Parsing", "Extracting", "BuildingRecords">>

\* a loadData run is under way or over (not a direct call of processRawData)
InRun == env.fetch # "none"

\* the first stage that fails in the world e, "none" when none does
FailingStage(e) ==
  IF e.fetch # "ok" \/ e.body # "ok" THEN "Fetching"
  ELSE IF e.xlsx # "ok" THEN "Parsing"
  ELSE IF ~e.sheetFound THEN "Extracting"
  ELSE IF e.grid.null \/ Len(e.grid.rows) < 2 THEN "BuildingRecords"
  ELSE "none"

\* the stages entered so far are the first stages of StageOrder, in order
StagesInOrder ==
  InRun => /\ Len(stages) <= Len(StageOrder)
           /\ stages = SubSeq(StageOrder, 1, Len(stages))

\* a run that resolved after a failure entered no stage after the failing
\* one and resolved with the fallback data; one that resolved without a
\* failure went through all four stages
FailureSkipsToFallback ==
  (InRun /\ loadPc = "resolved") =>
    /\ failure = FailingStage(env)
    /\ failure # "none" =>
         /\ stages[Len(stages)] = failure
         /\ built = <<>>
         /\ loadResult = loaderFallbackData
    /\ failure = "none" =>
         /\ stages = StageOrder
         /\ loadResult = built

\* the retrieval of the file has settled: loadData is past both awaits of
\* loadExcelFile
RetrievalSettled == InRun /\ loadPc \notin {"Fetching", "ReadingBody"}

\* C25: each loadData run enters its stages strictly in the order Fetching,
\* Parsing, Extracting, BuildingRecords; a failure at any stage skips every
\* later stage and goes straight to the fallback path; and whenever the
\* retrieval of the file has settled, with success or failure, the run
\* eventually resolves with a Doctor collection, built or fallback.
C25_StagesAndResolution ==
  /\ [](StagesInOrder /\ FailureSkipsToFallback)
  /\ RetrievalSettled ~> (loadPc = "resolved")

\* a run whose workbook lacks the sheet has resolved with the fallback data
\* after Fetching, Parsing and Extracting, BuildingRecords never entered
C25_Witness ==
  /\ loadPc = "resolved"
  /\ env.fetch = "ok" /\ env.body = "ok" /\ env.xlsx = "ok" /\ ~env.sheetFound
  /\ failure = "Extracting"
  /\ stages = <<"Fetching", "Parsing", "Extracting">>
  /\ loadResult = loaderFallbackData

(***************************************************************************)
(* Properties of loads and reloads, checked under Spec                     *)
(***************************************************************************)
\* the dashboard's memory after medicalData.loadFromExcel alone, loaded being
\* what ExcelLoader.loadData resolved with
AfterLoadAlone(loaded) == loadFromExcel(Current, page.excelLoader, loaded)

\* C26: swapping the Doctor collection does not by itself touch the Filter
\* State: medicalData.loadFromExcel, on success and on fallback, leaves
\* currentFilters as it is, a reload request leaves it as it is while the load
\* is awaited, and when the reload completes the filters are those the
\* clearAllFilters step of reloadData sets, applied to the new collection.
C26_FiltersSurviveSwap ==
  [][/\ reloadsInFlight' > reloadsInFlight =>
          (currentFilters' = currentFilters /\ activeButtons' = activeButtons)
     /\ reloadsInFlight' < reloadsInFlight =>
          \E loaded \in DashboardLoads :
            /\ AfterLoadAlone(loaded).currentFilters = currentFilters
            /\ AfterLoadAlone(loaded).activeButtons = activeButtons
            /\ doctors' = AfterLoadAlone(loaded).doctors
            /\ currentFilters' =
                 clearAllFilters(AfterLoadAlone(loaded), page.rangeSliders).currentFilters
     /\ (setupPc = "loading" /\ setupPc' = "ready") =>
          \E loaded \in DashboardLoads :
            /\ AfterLoadAlone(loaded).currentFilters = currentFilters
            /\ doctors' = AfterLoadAlone(loaded).doctors]_vars

\* a reload is awaiting its load while a segment filter, a search text and a
\* quick filter are in force and shown
C26_Witness ==
  /\ reloadsInFlight = 1
  /\ currentFilters.segments # <<>>
  /\ currentFilters.search # <<>>
  /\ currentFilters.quickFilters # <<>>
  /\ currentFilters # defaultFilters
  /\ rendered

\* the log entries at which the search was cleared
Clears == LogOf("clear") \cup LogOf("clearAll")

\* C27: after clearSearch or clearAllFilters has run, the search criterion
\* stays empty until the user produces a new search input event: a debounced
\* update that was still pending at the clear, when it runs afterwards, does
\* not restore the old search text.
C27_ClearedSearchStaysEmpty ==
  \A c \in Clears :
    (\A i \in LogOf("input") : i < c) =>
      /\ currentFilters.search = <<>>
      /\ \A k \in LogOf("debounced") : k > c => searchLog[k].value = <<>>

\* a text was typed, the search was cleared less than 300 ms later, and the
\* pending debounced update has run since: the criterion is still empty
C27_Witness ==
  \E i, c, k \in DOMAIN searchLog :
    /\ i < c /\ c < k /\ k = Len(searchLog)
    /\ searchLog[i].kind = "input" /\ trim(searchLog[i].value) # <<>>
    /\ c \in Clears
    /\ searchLog[c].at - searchLog[i].at < DebounceWait
    /\ searchLog[k].kind = "debounced"
    /\ searchLog[k].at = searchLog[i].at + DebounceWait
    /\ currentFilters.search = <<>>
    /\ rendered

(***************************************************************************)
(* Properties of overlapping reloads, checked under SpecReload             *)
(***************************************************************************)
\* the collection medicalData.loadFromExcel installs for a load result
Installed(loaded) == IF Len(loaded) > 0 THEN loaded ELSE dashboardFallbackData

\* every reload requested has completed, and there were at least two
AllReloadsDone ==
  /\ Len(reloadRequests) >= 2
  /\ Completed = DOMAIN reloadRequests

\* C28: when reloads overlap, then once all have completed the Doctor
\* collection is the result of the most recently requested reload, whatever
\* the order in which the loads settle.
C28_LatestRequestWins ==
  AllReloadsDone => doctors = Installed(reloadRequests[Len(reloadRequests)].load)

\* the reloads completed in the order they were requested
CompletedInRequestOrder ==
  \A i, j \in Completed : i < j => reloadRequests[i].order < reloadRequests[j].order

\* C29: after every completed medicalData.loadFromExcel (the initial load or
\* a reload), whatever ExcelLoader returned, medicalData.doctors is non-empty
\* and isLoaded is true; where ExcelLoader is undefined the collection is the
\* dashboard's built-in fallback dataset, and from any state a load whose
\* result is empty, or one in a page without ExcelLoader, ends with that
\* dataset in place.
C29_LoadLeavesDoctors ==
  /\ setupPc = "ready" =>
       /\ Len(doctors) > 0
       /\ isLoaded
       /\ ~page.excelLoader => doctors = dashboardFallbackData
  /\ \A defined \in BOOLEAN, loaded \in {<<>>, doctors} :
       /\ Len(loadFromExcel(Current, defined, loaded).doctors) > 0
       /\ loadFromExcel(Current, defined, loaded).isLoaded
       /\ (~defined \/ Len(loaded) = 0) =>
            loadFromExcel(Current, defined, loaded).doctors = dashboardFallbackData

\* a load has completed in a page with ExcelLoader and resolved with an empty
\* array: the built-in dataset is in place and shown
C29_Witness ==
  /\ setupPc = "ready"
  /\ page.excelLoader
  /\ reloadsInFlight = 0
  /\ doctors = dashboardFallbackData
  /\ isLoaded
  /\ rendered

\* no value occurs twice in the array
NoDuplicates(arr) == \A i, j \in DOMAIN arr : arr[i] = arr[j] => i = j

\* the values of an array, as a set
AsSet(arr) == {arr[i] : i \in DOMAIN arr}

\* currentFilters.segments after the checkbox of the segment is checked
SegmentsChecked(segment) ==
  updateSegmentFilter(Current, segment, TRUE).currentFilters.segments

\* currentFilters.segments after the checkbox of the segment is checked and
\* then unchecked
SegmentsCheckedUnchecked(segment) ==
  updateSegmentFilter(updateSegmentFilter(Current, segment, TRUE), segment, FALSE).currentFilters.segments

\* neither list of the filter state holds a value twice
ListsHoldNoDuplicates ==
  /\ NoDuplicates(currentFilters.segments)
  /\ NoDuplicates(currentFilters.quickFilters)

\* checking a segment already selected leaves the list as it is
CheckingSelectedChangesNothing ==
  \A segment \in SegmentBoxes :
    arrayIncludes(currentFilters.segments, segment) =>
      SegmentsChecked(segment) = currentFilters.segments

\* C30 as stated: after any sequence of updateSegmentFilter, toggleQuickFilter
\* and clearAllFilters operations the two lists hold no duplicates, checking a
\* segment already selected leaves the list unchanged, and checking then
\* unchecking a segment restores the previous set of selected segments.
C30_CheckUncheckRestores ==
  /\ ListsHoldNoDuplicates
  /\ CheckingSelectedChangesNothing
  /\ \A segment \in SegmentBoxes :
       AsSet(SegmentsCheckedUnchecked(segment)) = AsSet(currentFilters.segments)

\* C30: after any sequence of updateSegmentFilter, toggleQuickFilter and
\* clearAllFilters operations the two lists hold no duplicates, and checking
\* a segment already selected leaves the list unchanged; checking then
\* unchecking a segment leaves the list without that segment: the previous
\* list when the segment was not selected before, the previous list less that
\* segment when it was.
C30_CheckUncheckRemoves ==
  /\ ListsHoldNoDuplicates
  /\ CheckingSelectedChangesNothing
  /\ \A segment \in SegmentBoxes :
       /\ SegmentsCheckedUnchecked(segment) =
            SelectSeq(currentFilters.segments, LAMBDA s : s # segment)
       /\ ~arrayIncludes(currentFilters.segments, segment) =>
            SegmentsCheckedUnchecked(segment) = currentFilters.segments

\* both segment boxes have been checked, "conquistar" first, and both quick
\* filters switched on: each list holds two values, and the refresh has run
C30_Witness ==
  /\ setupPc = "ready"
  /\ currentFilters.segments = <<"conquistar", "blindar">>
  /\ Len(currentFilters.quickFilters) = 2
  /\ activeButtons = QuickFilterTags
  /\ rendered

====
